---------------------------- MODULE Spec2Model ----------------------------
(***************************************************************************)
(* A model of the regex-driven tokenizers of pygments.lexers.rdf and       *)
(* pygments.lexers.webmisc: the state tables (Sparql, Turtle, Duel,        *)
(* XQuery, QML, Cirru, Slim), the XQuery callbacks with their class-level  *)
(* auxiliary stack xquery_parse_state, and the driver loop that runs a     *)
(* table over an input.                                                    *)
(*                                                                         *)
(* Offsets are 0-based as in the source: the character at offset p of a    *)
(* text t is SubSeq(t, p+1, p+1).  A pattern is a syntax tree mirroring    *)
(* the source regular expression; Matches computes what Python's           *)
(* backtracking matcher computes for pattern.match(text, pos).             *)
(***************************************************************************)
EXTENDS Integers, Sequences, FiniteSets, TLC

----------------------------------------------------------------------------
(* Characters and character classes                                        *)

Lowers == {"a","b","c","d","e","f","g","h","i","j","k","l","m",
           "n","o","p","q","r","s","t","u","v","w","x","y","z"}
Uppers == {"A","B","C","D","E","F","G","H","I","J","K","L","M",
           "N","O","P","Q","R","S","T","U","V","W","X","Y","Z"}
Digits == {"0","1","2","3","4","5","6","7","8","9"}
Spaces == {" ", "\t", "\n", "\r", "\f"}
WordChars == Lowers \cup Uppers \cup Digits \cup {"_"}

ToLower == [c \in Uppers |->
  CASE c = "A" -> "a" [] c = "B" -> "b" [] c = "C" -> "c" [] c = "D" -> "d"
    [] c = "E" -> "e" [] c = "F" -> "f" [] c = "G" -> "g" [] c = "H" -> "h"
    [] c = "I" -> "i" [] c = "J" -> "j" [] c = "K" -> "k" [] c = "L" -> "l"
    [] c = "M" -> "m" [] c = "N" -> "n" [] c = "O" -> "o" [] c = "P" -> "p"
    [] c = "Q" -> "q" [] c = "R" -> "r" [] c = "S" -> "s" [] c = "T" -> "t"
    [] c = "U" -> "u" [] c = "V" -> "v" [] c = "W" -> "w" [] c = "X" -> "x"
    [] c = "Y" -> "y" [] c = "Z" -> "z"]

Fold(c) == IF c \in Uppers THEN ToLower[c] ELSE c

CharAt(txt, p) == SubSeq(txt, p + 1, p + 1)

----------------------------------------------------------------------------
(* Pattern syntax trees                                                    *)

Lit(s)        == [t |-> "lit", s |-> s]
Cls(S)        == [t |-> "cls", S |-> S, neg |-> FALSE]
NCls(S)       == [t |-> "cls", S |-> S, neg |-> TRUE]
Dot           == [t |-> "dot"]
Cat(rs)       == [t |-> "cat", rs |-> rs]
Alt(rs)       == [t |-> "alt", rs |-> rs]
Words(ws)     == [t |-> "alt", rs |-> [i \in DOMAIN ws |-> Lit(ws[i])]]
Rep(r, lo, hi) == [t |-> "rep", r |-> r, lo |-> lo, hi |-> hi, lazy |-> FALSE]
Star(r)       == [t |-> "rep", r |-> r, lo |-> 0, hi |-> -1, lazy |-> FALSE]
Plus(r)       == [t |-> "rep", r |-> r, lo |-> 1, hi |-> -1, lazy |-> FALSE]
Opt(r)        == [t |-> "rep", r |-> r, lo |-> 0, hi |-> 1, lazy |-> FALSE]
StarLazy(r)   == [t |-> "rep", r |-> r, lo |-> 0, hi |-> -1, lazy |-> TRUE]
PlusLazy(r)   == [t |-> "rep", r |-> r, lo |-> 1, hi |-> -1, lazy |-> TRUE]
Grp(n, r)     == [t |-> "grp", n |-> n, r |-> r]
Ahead(r)      == [t |-> "ahead", r |-> r]
Behind(S)     == [t |-> "behind", S |-> S]
Bol           == [t |-> "bol"]
Eol           == [t |-> "eol"]
WordB         == [t |-> "wordb"]
NotWordB      == [t |-> "notwordb"]
Empty         == [t |-> "cat", rs |-> << >>]

(* The matching flags of a table (re.IGNORECASE, re.DOTALL, re.MULTILINE). *)
Flags(i, s, m) == [i |-> i, s |-> s, m |-> m]

MaxGroups == 7
NoGroups  == [n \in 1..MaxGroups |-> <<-1, -1>>]

----------------------------------------------------------------------------
(* The matcher.  Ends(re, txt, fl, p, g) is the sequence of the ways re can *)
(* match at offset p, in the order a backtracking matcher tries them: each *)
(* is the end offset with the capture groups set on the way.  The first is *)
(* the match Python's re reports.                                          *)

InClass(c, S, fl) ==
  \/ c \in S
  \/ fl.i /\ \E d \in S : Fold(d) = Fold(c)

RECURSIVE SameText(_, _, _)
SameText(a, b, fl) ==
  \/ a = b
  \/ /\ fl.i
     /\ Len(a) = Len(b)
     /\ Len(a) > 0
     /\ Fold(SubSeq(a, 1, 1)) = Fold(SubSeq(b, 1, 1))
     /\ SameText(SubSeq(a, 2, Len(a)), SubSeq(b, 2, Len(b)), fl)

IsWord(txt, p) == p >= 0 /\ p < Len(txt) /\ CharAt(txt, p) \in WordChars

AtBoundary(txt, p) == IsWord(txt, p - 1) # IsWord(txt, p)

AtLineStart(txt, fl, p) ==
  p = 0 \/ (fl.m /\ CharAt(txt, p - 1) = "\n")

AtLineEnd(txt, fl, p) ==
  \/ p = Len(txt)
  \/ p = Len(txt) - 1 /\ CharAt(txt, p) = "\n"
  \/ fl.m /\ CharAt(txt, p) = "\n"

RECURSIVE Ends(_, _, _, _, _)
RECURSIVE CatEnds(_, _, _, _, _, _)
RECURSIVE AltEnds(_, _, _, _, _, _, _)
RECURSIVE RepEnds(_, _, _, _, _, _)
RECURSIVE Through(_, _, _, _, _, _)

One(p, g) == << [e |-> p, g |-> g] >>

Ends(re, txt, fl, p, g) ==
  CASE re.t = "lit" ->
         IF /\ p + Len(re.s) <= Len(txt)
            /\ SameText(SubSeq(txt, p + 1, p + Len(re.s)), re.s, fl)
         THEN One(p + Len(re.s), g) ELSE << >>
    [] re.t = "cls" ->
         IF p < Len(txt) /\ (InClass(CharAt(txt, p), re.S, fl) # re.neg)
         THEN One(p + 1, g) ELSE << >>
    [] re.t = "dot" ->
         IF p < Len(txt) /\ (fl.s \/ CharAt(txt, p) # "\n")
         THEN One(p + 1, g) ELSE << >>
    [] re.t = "cat" -> CatEnds(re.rs, 1, txt, fl, p, g)
    [] re.t = "alt" -> AltEnds(re.rs, 1, Len(re.rs), txt, fl, p, g)
    [] re.t = "rep" -> RepEnds(re, 0, txt, fl, p, g)
    [] re.t = "grp" ->
         LET inner == Ends(re.r, txt, fl, p, g)
         IN  [k \in DOMAIN inner |->
                [e |-> inner[k].e,
                 g |-> [inner[k].g EXCEPT ![re.n] = <<p, inner[k].e>>]]]
    [] re.t = "ahead" ->
         IF Ends(re.r, txt, fl, p, g) # << >> THEN One(p, g) ELSE << >>
    [] re.t = "behind" ->
         IF p > 0 /\ InClass(CharAt(txt, p - 1), re.S, fl)
         THEN One(p, g) ELSE << >>
    [] re.t = "bol" -> IF AtLineStart(txt, fl, p) THEN One(p, g) ELSE << >>
    [] re.t = "eol" -> IF AtLineEnd(txt, fl, p) THEN One(p, g) ELSE << >>
    [] re.t = "wordb" -> IF AtBoundary(txt, p) THEN One(p, g) ELSE << >>
    [] re.t = "notwordb" -> IF AtBoundary(txt, p) THEN << >> ELSE One(p, g)

(* Every way to continue from each of the ends in from, in order, with      *)
(* the rest rs[i..] of a concatenation.                                    *)
Through(from, rs, i, txt, fl, k) ==
  IF k > Len(from) THEN << >>
  ELSE CatEnds(rs, i, txt, fl, from[k].e, from[k].g)
         \o Through(from, rs, i, txt, fl, k + 1)

CatEnds(rs, i, txt, fl, p, g) ==
  IF i > Len(rs) THEN One(p, g)
  ELSE Through(Ends(rs[i], txt, fl, p, g), rs, i + 1, txt, fl, 1)

(* The ends of the alternatives rs[lo..hi], in the order of the            *)
(* alternatives.                                                           *)
AltEnds(rs, lo, hi, txt, fl, p, g) ==
  IF lo > hi THEN << >>
  ELSE IF lo = hi THEN Ends(rs[lo], txt, fl, p, g)
  ELSE LET mid == (lo + hi) \div 2
       IN  AltEnds(rs, lo, mid, txt, fl, p, g) \o AltEnds(rs, mid + 1, hi, txt, fl, p, g)

(* n repetitions of re.r are done.  A greedy repetition tries one more     *)
(* first; a lazy one tries to stop first.  A repetition that consumed      *)
(* nothing is not repeated.                                                *)
RepEnds(re, n, txt, fl, p, g) ==
  LET stop == IF n >= re.lo THEN One(p, g) ELSE << >>
      once == IF re.hi # -1 /\ n >= re.hi THEN << >>
              ELSE Ends(re.r, txt, fl, p, g)
      RECURSIVE More(_)
      More(k) == IF k > Len(once) THEN << >>
                 ELSE (IF once[k].e > p \/ n < re.lo
                       THEN RepEnds(re, IF once[k].e > p THEN n + 1 ELSE re.lo,
                                    txt, fl, once[k].e, once[k].g)
                       ELSE << >>)
                      \o More(k + 1)
  IN  IF re.lazy THEN stop \o More(1) ELSE More(1) \o stop

(* pattern.match(text, pos): the match object, or NoMatch.                 *)
NoMatch == [ok |-> FALSE]

Match(re, txt, fl, p) ==
  LET all == Ends(re, txt, fl, p, NoGroups)
  IN  IF all = << >> THEN NoMatch
      ELSE [ok |-> TRUE, start |-> p, end |-> all[1].e, g |-> all[1].g]

(* match.group(n), match.start(n), match.end(n); group 0 is the match.     *)
MStart(m, n) == IF n = 0 THEN m.start ELSE m.g[n][1]
MEnd(m, n)   == IF n = 0 THEN m.end ELSE m.g[n][2]
Group(txt, m, n) ==
  IF MStart(m, n) < 0 THEN "" ELSE SubSeq(txt, MStart(m, n) + 1, MEnd(m, n))

----------------------------------------------------------------------------
(* Rules.  A rule is a pattern, an action and a transition; a state's      *)
(* default transition is an entry of its own.  A transition is the tuple   *)
(* of the source: state names to push, "#pop", "#pop:n", "#push".          *)

(* The printable ASCII characters; the grave accent is left out of the     *)
(* model's characters, a TLA+ string cannot hold it.                       *)
Printable == Lowers \cup Uppers \cup Digits \cup
  {" ", "!", "\"", "#", "$", "%", "&", "'", "(", ")", "*", "+", ",", "-", ".", "/",
   ":", ";", "<", "=", ">", "?", "@", "[", "\\", "]", "^", "_", "{", "|", "}", "~"}

Tok(kind)      == [k |-> "token", kind |-> kind]
ByGroups(acts) == [k |-> "bygroups", acts |-> acts]
Using(lx)      == [k |-> "using", lexer |-> lx]
Callback(f)    == [k |-> "callback", f |-> f]
StartsBlock(kind, state) ==
  [k |-> "callback", f |-> "_starts_block", kind |-> kind, state |-> state]
NoAction       == [k |-> "none"]

Rule(re, act, new) == [re |-> re, act |-> act, new |-> new, isdefault |-> FALSE]
Default(new)       == [re |-> Empty, act |-> NoAction, new |-> new, isdefault |-> TRUE]

----------------------------------------------------------------------------
(* SparqlLexer.tokens *)
Sparql_flags == Flags(TRUE, FALSE, FALSE)

(* SparqlLexer.tokens['root'] with the keyword rule moved to the end: the  *)
(* order the rules would need for a function name to win over a keyword.   *)
Sparql_root_keywords_last ==
  <<
    Rule(Plus(Cls(Spaces)),
         Tok("Text.Whitespace"), << >>),  \* L36
    Rule(Cat(<<Grp(1, Words(<<"prefix", "base">>)), Grp(2, Plus(Cls(Spaces))), Grp(3,
         Cat(<<Cls(Lowers), Star(Cls(WordChars \cup {"-"}))>>)), Grp(4, Star(Cls(Spaces))),
         Grp(5, Lit(":"))>>),
         ByGroups(<<Tok("Keyword"), Tok("Text.Whitespace"), Tok("Name.Namespace"),
              Tok("Text.Whitespace"), Tok("Punctuation")>>), << >>),  \* L43
    Rule(Cat(<<Lit("?"), Cls(Lowers \cup {"_"}), Star(Cls(WordChars))>>),
         Tok("Name.Variable"), << >>),  \* L46
    Rule(Cat(<<Lit("<"), Plus(NCls({">"})), Lit(">")>>),
         Tok("Name.Label"), << >>),  \* L47
    Rule(Cat(<<Grp(1, Cat(<<Cls(Lowers), Star(Cls(WordChars \cup {"-"}))>>)), Grp(2, Lit(":")),
         Grp(3, Cat(<<Cls(Lowers), Star(Cls(WordChars \cup {"-"}))>>))>>),
         ByGroups(<<Tok("Name.Namespace"), Tok("Punctuation"), Tok("Name.Tag")>>), << >>),  \* L48
    Rule(Cat(<<Grp(1, Words(<<"str", "lang", "langmatches", "datatype", "bound", "iri", "uri",
         "bnode", "rand", "abs", "ceil", "floor", "round", "concat", "strlen", "ucase", "lcase",
         "encode_for_uri", "contains", "strstarts", "strends", "strbefore", "strafter", "year",
         "month", "day", "hours", "minutes", "seconds", "timezone", "tz", "now", "md5", "sha1",
         "sha256", "sha384", "sha512", "coalesce", "if", "strlang", "strdt", "sameterm",
         "isiri", "isuri", "isblank", "isliteral", "isnumeric", "regex", "substr", "replace",
         "exists", "not exists", "count", "sum", "min", "max", "avg", "sample", "group_concat",
         "separator">>)), WordB>>),
         Tok("Name.Function"), << >>),  \* L50
    Rule(Grp(1, Words(<<"true", "false">>)),
         Tok("Literal"), << >>),  \* L58
    Rule(Cat(<<Opt(Cls({"+", "-"})), Star(Cls(Digits)), Lit("."), Plus(Cls(Digits))>>),
         Tok("Literal.Number.Float"), << >>),  \* L59
    Rule(Cat(<<Opt(Cls({"+", "-"})), Star(Cls(Digits)), Opt(Grp(1, Cat(<<Opt(Lit(":")),
         Lit("."), Plus(Cls(Digits))>>))), Lit("E"), Opt(Cls({"+", "-"})), Plus(Cls(Digits))>>),
         Tok("Literal.Number.Float"), << >>),  \* L60
    Rule(Cat(<<Opt(Cls({"+", "-"})), Plus(Cls(Digits))>>),
         Tok("Literal.Number.Integer"), << >>),  \* L61
    Rule(Grp(1, Words(<<"||", "&&", "=", "*", "-", "+", "/">>)),
         Tok("Operator"), << >>),  \* L62
    Rule(Cls({"(", ")", ",", ".", ":", ";", "^", "{", "}"}),
         Tok("Punctuation"), << >>),  \* L63
    Rule(Cat(<<Lit("#"), Plus(NCls({"\n"}))>>),
         Tok("Comment"), << >>),  \* L64
    Rule(Lit("\"\"\""),
         Tok("Literal.String"), <<"triple-double-quoted-string">>),  \* L65
    Rule(Lit("\""),
         Tok("Literal.String"), <<"single-double-quoted-string">>),  \* L66
    Rule(Lit("'''"),
         Tok("Literal.String"), <<"triple-single-quoted-string">>),  \* L67
    Rule(Lit("'"),
         Tok("Literal.String"), <<"single-single-quoted-string">>),  \* L68
    Rule(Grp(1, Alt(<<Lit("select"), Lit("construct"), Lit("describe"), Lit("ask"),
         Lit("where"), Lit("filter"), Cat(<<Lit("group"), Plus(Cls(Spaces)), Lit("by")>>),
         Lit("minus"), Lit("distinct"), Lit("reduced"), Lit("from named"), Lit("from"),
         Cat(<<Lit("order"), Plus(Cls(Spaces)), Lit("by")>>), Lit("limit"), Lit("offset"),
         Lit("bindings"), Lit("load"), Lit("clear"), Lit("drop"), Lit("create"), Lit("add"),
         Lit("move"), Lit("copy"), Cat(<<Lit("insert"), Plus(Cls(Spaces)), Lit("data")>>),
         Cat(<<Lit("delete"), Plus(Cls(Spaces)), Lit("data")>>), Cat(<<Lit("delete"),
         Plus(Cls(Spaces)), Lit("where")>>), Lit("delete"), Lit("insert"), Lit("using named"),
         Lit("using"), Lit("graph"), Lit("default"), Lit("named"), Lit("all"), Lit("optional"),
         Lit("service"), Lit("silent"), Lit("bind"), Lit("union"), Lit("not in"), Lit("in"),
         Lit("as"), Lit("a")>>)),
         Tok("Keyword"), << >>)  \* L37
  >>

Sparql_root ==
  <<
    Rule(Plus(Cls(Spaces)),
         Tok("Text.Whitespace"), << >>),  \* L36
    Rule(Grp(1, Alt(<<Lit("select"), Lit("construct"), Lit("describe"), Lit("ask"),
         Lit("where"), Lit("filter"), Cat(<<Lit("group"), Plus(Cls(Spaces)), Lit("by")>>),
         Lit("minus"), Lit("distinct"), Lit("reduced"), Lit("from named"), Lit("from"),
         Cat(<<Lit("order"), Plus(Cls(Spaces)), Lit("by")>>), Lit("limit"), Lit("offset"),
         Lit("bindings"), Lit("load"), Lit("clear"), Lit("drop"), Lit("create"), Lit("add"),
         Lit("move"), Lit("copy"), Cat(<<Lit("insert"), Plus(Cls(Spaces)), Lit("data")>>),
         Cat(<<Lit("delete"), Plus(Cls(Spaces)), Lit("data")>>), Cat(<<Lit("delete"),
         Plus(Cls(Spaces)), Lit("where")>>), Lit("delete"), Lit("insert"), Lit("using named"),
         Lit("using"), Lit("graph"), Lit("default"), Lit("named"), Lit("all"), Lit("optional"),
         Lit("service"), Lit("silent"), Lit("bind"), Lit("union"), Lit("not in"), Lit("in"),
         Lit("as"), Lit("a")>>)),
         Tok("Keyword"), << >>),  \* L37
    Rule(Cat(<<Grp(1, Words(<<"prefix", "base">>)), Grp(2, Plus(Cls(Spaces))), Grp(3,
         Cat(<<Cls(Lowers), Star(Cls(WordChars \cup {"-"}))>>)), Grp(4, Star(Cls(Spaces))),
         Grp(5, Lit(":"))>>),
         ByGroups(<<Tok("Keyword"), Tok("Text.Whitespace"), Tok("Name.Namespace"),
              Tok("Text.Whitespace"), Tok("Punctuation")>>), << >>),  \* L43
    Rule(Cat(<<Lit("?"), Cls(Lowers \cup {"_"}), Star(Cls(WordChars))>>),
         Tok("Name.Variable"), << >>),  \* L46
    Rule(Cat(<<Lit("<"), Plus(NCls({">"})), Lit(">")>>),
         Tok("Name.Label"), << >>),  \* L47
    Rule(Cat(<<Grp(1, Cat(<<Cls(Lowers), Star(Cls(WordChars \cup {"-"}))>>)), Grp(2, Lit(":")),
         Grp(3, Cat(<<Cls(Lowers), Star(Cls(WordChars \cup {"-"}))>>))>>),
         ByGroups(<<Tok("Name.Namespace"), Tok("Punctuation"), Tok("Name.Tag")>>), << >>),  \* L48
    Rule(Cat(<<Grp(1, Words(<<"str", "lang", "langmatches", "datatype", "bound", "iri", "uri",
         "bnode", "rand", "abs", "ceil", "floor", "round", "concat", "strlen", "ucase", "lcase",
         "encode_for_uri", "contains", "strstarts", "strends", "strbefore", "strafter", "year",
         "month", "day", "hours", "minutes", "seconds", "timezone", "tz", "now", "md5", "sha1",
         "sha256", "sha384", "sha512", "coalesce", "if", "strlang", "strdt", "sameterm",
         "isiri", "isuri", "isblank", "isliteral", "isnumeric", "regex", "substr", "replace",
         "exists", "not exists", "count", "sum", "min", "max", "avg", "sample", "group_concat",
         "separator">>)), WordB>>),
         Tok("Name.Function"), << >>),  \* L50
    Rule(Grp(1, Words(<<"true", "false">>)),
         Tok("Literal"), << >>),  \* L58
    Rule(Cat(<<Opt(Cls({"+", "-"})), Star(Cls(Digits)), Lit("."), Plus(Cls(Digits))>>),
         Tok("Literal.Number.Float"), << >>),  \* L59
    Rule(Cat(<<Opt(Cls({"+", "-"})), Star(Cls(Digits)), Opt(Grp(1, Cat(<<Opt(Lit(":")),
         Lit("."), Plus(Cls(Digits))>>))), Lit("E"), Opt(Cls({"+", "-"})), Plus(Cls(Digits))>>),
         Tok("Literal.Number.Float"), << >>),  \* L60
    Rule(Cat(<<Opt(Cls({"+", "-"})), Plus(Cls(Digits))>>),
         Tok("Literal.Number.Integer"), << >>),  \* L61
    Rule(Grp(1, Words(<<"||", "&&", "=", "*", "-", "+", "/">>)),
         Tok("Operator"), << >>),  \* L62
    Rule(Cls({"(", ")", ",", ".", ":", ";", "^", "{", "}"}),
         Tok("Punctuation"), << >>),  \* L63
    Rule(Cat(<<Lit("#"), Plus(NCls({"\n"}))>>),
         Tok("Comment"), << >>),  \* L64
    Rule(Lit("\"\"\""),
         Tok("Literal.String"), <<"triple-double-quoted-string">>),  \* L65
    Rule(Lit("\""),
         Tok("Literal.String"), <<"single-double-quoted-string">>),  \* L66
    Rule(Lit("'''"),
         Tok("Literal.String"), <<"triple-single-quoted-string">>),  \* L67
    Rule(Lit("'"),
         Tok("Literal.String"), <<"single-single-quoted-string">>)  \* L68
  >>

Sparql_triple_double_quoted_string ==
  <<
    Rule(Lit("\"\"\""),
         Tok("Literal.String"), <<"end-of-string">>),  \* L71
    Rule(Plus(NCls({"\\"})),
         Tok("Literal.String"), << >>),  \* L72
    Rule(Lit("\\"),
         Tok("Literal.String"), <<"string-escape">>)  \* L73
  >>

Sparql_single_double_quoted_string ==
  <<
    Rule(Lit("\""),
         Tok("Literal.String"), <<"end-of-string">>),  \* L76
    Rule(Plus(NCls({"\n", "\"", "\\"})),
         Tok("Literal.String"), << >>),  \* L77
    Rule(Lit("\\"),
         Tok("Literal.String"), <<"string-escape">>)  \* L78
  >>

Sparql_triple_single_quoted_string ==
  <<
    Rule(Lit("'''"),
         Tok("Literal.String"), <<"end-of-string">>),  \* L81
    Rule(Plus(NCls({"\\"})),
         Tok("Literal.String"), << >>),  \* L82
    Rule(Lit("\\"),
         Tok("Literal.String"), <<"string-escape">>)  \* L83
  >>

Sparql_single_single_quoted_string ==
  <<
    Rule(Lit("'"),
         Tok("Literal.String"), <<"end-of-string">>),  \* L86
    Rule(Plus(NCls({"\n", "'", "\\"})),
         Tok("Literal.String"), << >>),  \* L87
    Rule(Lit("\\"),
         Tok("Literal.String"), <<"string-escape">>)  \* L88
  >>

(* SparqlLexer.tokens['string-escape'] with a default transition of '#pop' *)
(* after its rules.                                                        *)
Sparql_string_escape_with_default ==
  <<
    Rule(Dot,
         Tok("Literal.String"), <<"#pop">>),  \* L91
    Default(<<"#pop">>)  \* L91
  >>

Sparql_string_escape ==
  <<
    Rule(Dot,
         Tok("Literal.String"), <<"#pop">>)  \* L91
  >>

(* SparqlLexer.tokens['end-of-string'] with a default of '#pop' in place   *)
(* of '#pop:2'.                                                            *)
Sparql_end_of_string_pop_one ==
  <<
    Rule(Cat(<<Grp(1, Lit("@")), Grp(2, Cat(<<Plus(Cls(Lowers)), Star(Grp(3,
         Cat(<<Opt(Lit(":")), Lit("-"), Plus(Cls(Lowers \cup Digits))>>)))>>))>>),
         ByGroups(<<Tok("Operator"), Tok("Name.Function")>>), <<"#pop:2">>),  \* L94
    Rule(Lit("^^"),
         Tok("Operator"), <<"#pop:2">>),  \* L96
    Default(<<"#pop">>)  \* L97
  >>

Sparql_end_of_string ==
  <<
    Rule(Cat(<<Grp(1, Lit("@")), Grp(2, Cat(<<Plus(Cls(Lowers)), Star(Grp(3,
         Cat(<<Opt(Lit(":")), Lit("-"), Plus(Cls(Lowers \cup Digits))>>)))>>))>>),
         ByGroups(<<Tok("Operator"), Tok("Name.Function")>>), <<"#pop:2">>),  \* L94
    Rule(Lit("^^"),
         Tok("Operator"), <<"#pop:2">>),  \* L96
    Default(<<"#pop:2">>)  \* L97
  >>

SparqlLexer_tokens ==
  ("root" :> Sparql_root)
  @@ ("triple-double-quoted-string" :> Sparql_triple_double_quoted_string)
  @@ ("single-double-quoted-string" :> Sparql_single_double_quoted_string)
  @@ ("triple-single-quoted-string" :> Sparql_triple_single_quoted_string)
  @@ ("single-single-quoted-string" :> Sparql_single_single_quoted_string)
  @@ ("string-escape" :> Sparql_string_escape)
  @@ ("end-of-string" :> Sparql_end_of_string)

(* TurtleLexer.tokens *)
Turtle_flags == Flags(TRUE, FALSE, FALSE)

Turtle_root ==
  <<
    Rule(Plus(Cls(Spaces)),
         Tok("Text.Whitespace"), << >>),  \* L125
    Rule(Cat(<<Grp(1, Words(<<"@base", "BASE">>)), Grp(2, Plus(Cls(Spaces))), Grp(3,
         Cat(<<Lit("<"), Star(NCls({"\t", "\n", "\f", "\r", " ", "\"", "<", ">", "\\", "^", "{",
         "|", "}"})), Lit(">")>>)), Grp(4, Star(Cls(Spaces))), Grp(5, Opt(Lit(".")))>>),
         ByGroups(<<Tok("Keyword"), Tok("Text.Whitespace"), Tok("Name.Variable"),
              Tok("Text.Whitespace"), Tok("Punctuation")>>), << >>),  \* L128
    Rule(Cat(<<Grp(1, Words(<<"@prefix", "PREFIX">>)), Grp(2, Plus(Cls(Spaces))), Grp(3,
         Cat(<<Opt(Cat(<<Cls(Lowers \cup Uppers), Star(Cls(WordChars \cup {"-"}))>>)),
         Lit(":")>>)), Grp(4, Plus(Cls(Spaces))), Grp(5, Cat(<<Lit("<"), Star(NCls({"\t", "\n",
         "\f", "\r", " ", "\"", "<", ">", "\\", "^", "{", "|", "}"})), Lit(">")>>)), Grp(6,
         Star(Cls(Spaces))), Grp(7, Opt(Lit(".")))>>),
         ByGroups(<<Tok("Keyword"), Tok("Text.Whitespace"), Tok("Name.Namespace"),
              Tok("Text.Whitespace"), Tok("Name.Variable"), Tok("Text.Whitespace"),
              Tok("Punctuation")>>), << >>),  \* L131
    Rule(Cat(<<Behind(Spaces), Lit("a"), Ahead(Cls(Spaces))>>),
         Tok("Keyword.Type"), << >>),  \* L136
    Rule(Grp(1, Cat(<<Lit("<"), Star(NCls({"\t", "\n", "\f", "\r", " ", "\"", "<", ">", "\\",
         "^", "{", "|", "}"})), Lit(">")>>)),
         Tok("Name.Variable"), << >>),  \* L139
    Rule(Cat(<<Grp(1, Cat(<<Opt(Cat(<<Cls(Lowers \cup Uppers),
         Star(Cls(WordChars \cup {"-"}))>>)), Lit(":")>>)), Grp(2, Cat(<<Cls(Lowers),
         Star(Cls(WordChars \cup {"-"}))>>))>>),
         ByGroups(<<Tok("Name.Namespace"), Tok("Name.Tag")>>), << >>),  \* L142
    Rule(Cat(<<Lit("#"), Plus(NCls({"\n"}))>>),
         Tok("Comment"), << >>),  \* L146
    Rule(Cat(<<WordB, Grp(1, Words(<<"true", "false">>)), WordB>>),
         Tok("Literal"), << >>),  \* L148
    Rule(Cat(<<Opt(Cls({"+", "-"})), Star(Cls(Digits)), Lit("."), Plus(Cls(Digits))>>),
         Tok("Literal.Number.Float"), << >>),  \* L149
    Rule(Cat(<<Opt(Cls({"+", "-"})), Star(Cls(Digits)), Opt(Grp(1, Cat(<<Opt(Lit(":")),
         Lit("."), Plus(Cls(Digits))>>))), Lit("E"), Opt(Cls({"+", "-"})), Plus(Cls(Digits))>>),
         Tok("Literal.Number.Float"), << >>),  \* L150
    Rule(Cat(<<Opt(Cls({"+", "-"})), Plus(Cls(Digits))>>),
         Tok("Literal.Number.Integer"), << >>),  \* L151
    Rule(Cls({"(", ")", ",", ".", ":", ";", "[", "]", "^", "{", "}"}),
         Tok("Punctuation"), << >>),  \* L152
    Rule(Lit("\"\"\""),
         Tok("Literal.String"), <<"triple-double-quoted-string">>),  \* L154
    Rule(Lit("\""),
         Tok("Literal.String"), <<"single-double-quoted-string">>),  \* L155
    Rule(Lit("'''"),
         Tok("Literal.String"), <<"triple-single-quoted-string">>),  \* L156
    Rule(Lit("'"),
         Tok("Literal.String"), <<"single-single-quoted-string">>)  \* L157
  >>

Turtle_triple_double_quoted_string ==
  <<
    Rule(Lit("\"\"\""),
         Tok("Literal.String"), <<"end-of-string">>),  \* L160
    Rule(Plus(NCls({"\\"})),
         Tok("Literal.String"), << >>),  \* L161
    Rule(Lit("\\"),
         Tok("Literal.String"), <<"string-escape">>)  \* L162
  >>

Turtle_single_double_quoted_string ==
  <<
    Rule(Lit("\""),
         Tok("Literal.String"), <<"end-of-string">>),  \* L165
    Rule(Plus(NCls({"\n", "\"", "\\"})),
         Tok("Literal.String"), << >>),  \* L166
    Rule(Lit("\\"),
         Tok("Literal.String"), <<"string-escape">>)  \* L167
  >>

Turtle_triple_single_quoted_string ==
  <<
    Rule(Lit("'''"),
         Tok("Literal.String"), <<"end-of-string">>),  \* L170
    Rule(Plus(NCls({"\\"})),
         Tok("Literal.String"), << >>),  \* L171
    Rule(Lit("\\"),
         Tok("Literal.String"), <<"string-escape">>)  \* L172
  >>

Turtle_single_single_quoted_string ==
  <<
    Rule(Lit("'"),
         Tok("Literal.String"), <<"end-of-string">>),  \* L175
    Rule(Plus(NCls({"\n", "'", "\\"})),
         Tok("Literal.String"), << >>),  \* L176
    Rule(Lit("\\"),
         Tok("Literal.String"), <<"string-escape">>)  \* L177
  >>

(* TurtleLexer.tokens['string-escape'] with '#pop:2' in place of '#pop'.   *)
Turtle_string_escape_pop_two ==
  <<
    Rule(Dot,
         Tok("Literal.String"), <<"#pop:2">>)  \* L180
  >>

Turtle_string_escape ==
  <<
    Rule(Dot,
         Tok("Literal.String"), <<"#pop">>)  \* L180
  >>

(* TurtleLexer.tokens['end-of-string'] with the second '^' of '^^<...>' left *)
(* outside the capture groups.                                             *)
Turtle_end_of_string_gap ==
  <<
    Rule(Cat(<<Grp(1, Lit("@")), Grp(2, Cat(<<Plus(Cls(Lowers \cup Uppers)), Star(Grp(3,
         Cat(<<Opt(Lit(":")), Lit("-"), Plus(Cls(Lowers \cup Uppers \cup Digits))>>)))>>))>>),
         ByGroups(<<Tok("Operator"), Tok("Generic.Emph")>>), <<"#pop:2">>),  \* L184
    Rule(Cat(<<Grp(1, Lit("^")), Lit("^"), Grp(2, Cat(<<Lit("<"), Star(NCls({"\t", "\n", "\f",
         "\r", " ", "\"", "<", ">", "\\", "^", "{", "|", "}"})), Lit(">")>>))>>),
         ByGroups(<<Tok("Operator"), Tok("Generic.Emph")>>), <<"#pop:2">>),  \* L187
    Rule(Cat(<<Grp(1, Lit("^^")), Grp(2, Cat(<<Opt(Cat(<<Cls(Lowers \cup Uppers),
         Star(Cls(WordChars \cup {"-"}))>>)), Lit(":")>>)), Grp(3, Cat(<<Cls(Lowers),
         Star(Cls(WordChars \cup {"-"}))>>))>>),
         ByGroups(<<Tok("Operator"), Tok("Generic.Emph"), Tok("Generic.Emph")>>), <<"#pop:2">>),  \* L188
    Default(<<"#pop:2">>)  \* L190
  >>

Turtle_end_of_string ==
  <<
    Rule(Cat(<<Grp(1, Lit("@")), Grp(2, Cat(<<Plus(Cls(Lowers \cup Uppers)), Star(Grp(3,
         Cat(<<Opt(Lit(":")), Lit("-"), Plus(Cls(Lowers \cup Uppers \cup Digits))>>)))>>))>>),
         ByGroups(<<Tok("Operator"), Tok("Generic.Emph")>>), <<"#pop:2">>),  \* L184
    Rule(Cat(<<Grp(1, Lit("^^")), Grp(2, Cat(<<Lit("<"), Star(NCls({"\t", "\n", "\f", "\r", " ",
         "\"", "<", ">", "\\", "^", "{", "|", "}"})), Lit(">")>>))>>),
         ByGroups(<<Tok("Operator"), Tok("Generic.Emph")>>), <<"#pop:2">>),  \* L187
    Rule(Cat(<<Grp(1, Lit("^^")), Grp(2, Cat(<<Opt(Cat(<<Cls(Lowers \cup Uppers),
         Star(Cls(WordChars \cup {"-"}))>>)), Lit(":")>>)), Grp(3, Cat(<<Cls(Lowers),
         Star(Cls(WordChars \cup {"-"}))>>))>>),
         ByGroups(<<Tok("Operator"), Tok("Generic.Emph"), Tok("Generic.Emph")>>), <<"#pop:2">>),  \* L188
    Default(<<"#pop:2">>)  \* L190
  >>

TurtleLexer_tokens ==
  ("root" :> Turtle_root)
  @@ ("triple-double-quoted-string" :> Turtle_triple_double_quoted_string)
  @@ ("single-double-quoted-string" :> Turtle_single_double_quoted_string)
  @@ ("triple-single-quoted-string" :> Turtle_triple_single_quoted_string)
  @@ ("single-single-quoted-string" :> Turtle_single_single_quoted_string)
  @@ ("string-escape" :> Turtle_string_escape)
  @@ ("end-of-string" :> Turtle_end_of_string)

(* DuelLexer.tokens *)
Duel_flags == Flags(FALSE, TRUE, FALSE)

(* DuelLexer.tokens['root'] with '<%' alone as the first group of its first *)
(* rule: the character after it falls to the delegated body.               *)
Duel_root_short_open ==
  <<
    Rule(Cat(<<Grp(1, Lit("<%")), Grp(2, StarLazy(Dot)), Grp(3, Lit("%>"))>>),
         ByGroups(<<Tok("Name.Tag"), Using("JavascriptLexer"), Tok("Name.Tag")>>), << >>),  \* L46
    Rule(Cat(<<Grp(1, Lit("<%$")), Grp(2, StarLazy(Dot)), Grp(3, Lit(":")), Grp(4,
         StarLazy(Dot)), Grp(5, Lit("%>"))>>),
         ByGroups(<<Tok("Name.Tag"), Tok("Name.Function"), Tok("Punctuation"),
              Tok("Literal.String"), Tok("Name.Tag")>>), << >>),  \* L48
    Rule(Cat(<<Grp(1, Lit("<%--")), Grp(2, StarLazy(Dot)), Grp(3, Lit("--%>"))>>),
         ByGroups(<<Tok("Name.Tag"), Tok("Comment.Multiline"), Tok("Name.Tag")>>), << >>),  \* L50
    Rule(Cat(<<Grp(1, Cat(<<Lit("<script"), StarLazy(Dot), Lit(">")>>)), Grp(2, StarLazy(Dot)),
         Grp(3, Lit("</script>"))>>),
         ByGroups(<<Using("HtmlLexer"), Using("JavascriptLexer"), Using("HtmlLexer")>>), << >>),  \* L52
    Rule(Cat(<<Grp(1, PlusLazy(Dot)), Ahead(Lit("<"))>>),
         Using("HtmlLexer"), << >>),  \* L55
    Rule(Plus(Dot),
         Using("HtmlLexer"), << >>)  \* L56
  >>

Duel_root ==
  <<
    Rule(Cat(<<Grp(1, Cat(<<Lit("<%"), Opt(Cls({"!", "#", ":", "=", "@"}))>>)), Grp(2,
         StarLazy(Dot)), Grp(3, Lit("%>"))>>),
         ByGroups(<<Tok("Name.Tag"), Using("JavascriptLexer"), Tok("Name.Tag")>>), << >>),  \* L46
    Rule(Cat(<<Grp(1, Lit("<%$")), Grp(2, StarLazy(Dot)), Grp(3, Lit(":")), Grp(4,
         StarLazy(Dot)), Grp(5, Lit("%>"))>>),
         ByGroups(<<Tok("Name.Tag"), Tok("Name.Function"), Tok("Punctuation"),
              Tok("Literal.String"), Tok("Name.Tag")>>), << >>),  \* L48
    Rule(Cat(<<Grp(1, Lit("<%--")), Grp(2, StarLazy(Dot)), Grp(3, Lit("--%>"))>>),
         ByGroups(<<Tok("Name.Tag"), Tok("Comment.Multiline"), Tok("Name.Tag")>>), << >>),  \* L50
    Rule(Cat(<<Grp(1, Cat(<<Lit("<script"), StarLazy(Dot), Lit(">")>>)), Grp(2, StarLazy(Dot)),
         Grp(3, Lit("</script>"))>>),
         ByGroups(<<Using("HtmlLexer"), Using("JavascriptLexer"), Using("HtmlLexer")>>), << >>),  \* L52
    Rule(Cat(<<Grp(1, PlusLazy(Dot)), Ahead(Lit("<"))>>),
         Using("HtmlLexer"), << >>),  \* L55
    Rule(Plus(Dot),
         Using("HtmlLexer"), << >>)  \* L56
  >>

DuelLexer_tokens ==
  ("root" :> Duel_root)

(* XQueryLexer.tokens *)
XQuery_flags == Flags(FALSE, TRUE, TRUE)

(* XQueryLexer.tokens['comment'] with no '#push' on '(:': comments do not  *)
(* nest.                                                                   *)
XQuery_comment_no_nesting ==
  <<
    Rule(Grp(1, Lit(":)")),
         Tok("Comment"), <<"#pop">>),  \* L320
    Rule(Grp(1, Lit("(:")),
         Tok("Comment"), << >>),  \* L321
    Rule(NCls({")", ":"}),
         Tok("Comment"), << >>),  \* L322
    Rule(Grp(1, Alt(<<NCls({")", ":"}), Lit(":"), Lit(")")>>)),
         Tok("Comment"), << >>)  \* L323
  >>

XQuery_comment ==
  <<
    Rule(Grp(1, Lit(":)")),
         Tok("Comment"), <<"#pop">>),  \* L320
    Rule(Grp(1, Lit("(:")),
         Tok("Comment"), <<"#push">>),  \* L321
    Rule(NCls({")", ":"}),
         Tok("Comment"), << >>),  \* L322
    Rule(Grp(1, Alt(<<NCls({")", ":"}), Lit(":"), Lit(")")>>)),
         Tok("Comment"), << >>)  \* L323
  >>

XQuery_whitespace ==
  <<
    Rule(Plus(Cls(Spaces)),
         Tok("Text"), << >>)  \* L326
  >>

XQuery_operator ==
  XQuery_whitespace
  \o
  <<
    Rule(Grp(1, Lit("}")),
         Callback("popstate_callback"), << >>),  \* L330
    Rule(Lit("(:"),
         Tok("Comment"), <<"comment">>),  \* L331
    Rule(Grp(1, Lit("{")),
         Callback("pushstate_root_callback"), << >>),  \* L333
    Rule(Words(<<"then", "else", "external", "at", "div", "except">>),
         Tok("Keyword"), <<"root">>),  \* L334
    Rule(Lit("order by"),
         Tok("Keyword"), <<"root">>),  \* L335
    Rule(Alt(<<Lit("is"), Lit("mod"), Cat(<<Lit("order"), Plus(Cls(Spaces)), Lit("by")>>),
         Cat(<<Lit("stable"), Plus(Cls(Spaces)), Lit("order"), Plus(Cls(Spaces)),
         Lit("by")>>)>>),
         Tok("Keyword"), <<"root">>),  \* L336
    Rule(Words(<<"and", "or">>),
         Tok("Operator.Word"), <<"root">>),  \* L337
    Rule(Cat(<<Grp(1, Words(<<"eq", "ge", "gt", "le", "lt", "ne", "idiv", "intersect", "in">>)),
         Ahead(WordB)>>),
         Tok("Operator.Word"), <<"root">>),  \* L338
    Rule(Alt(<<Lit("return"), Lit("satisfies"), Lit("to"), Lit("union"), Lit("where"),
         Cat(<<Lit("preserve"), Plus(Cls(Spaces)), Lit("strip")>>)>>),
         Tok("Keyword"), <<"root">>),  \* L340
    Rule(Grp(1, Words(<<">=", ">>", ">", "<=", "<<", "<", "-", "*", "!=", "+", "||", "|", ":=",
         "=">>)),
         Callback("operator_root_callback"), << >>),  \* L342
    Rule(Grp(1, Words(<<"::", ";", "[", "//", "/", ",">>)),
         Callback("punctuation_root_callback"), << >>),  \* L344
    Rule(Cat(<<Grp(1, Cat(<<Lit("cast"), Alt(<<Lit("able"), Empty>>)>>)), Grp(2,
         Plus(Cls(Spaces))), Grp(3, Lit("as")), WordB>>),
         ByGroups(<<Tok("Keyword"), Tok("Text"), Tok("Keyword")>>), <<"singletype">>),  \* L346
    Rule(Cat(<<Grp(1, Lit("instance")), Grp(2, Plus(Cls(Spaces))), Grp(3, Lit("of")), WordB>>),
         ByGroups(<<Tok("Keyword"), Tok("Text"), Tok("Keyword")>>), <<"itemtype">>),  \* L348
    Rule(Cat(<<Grp(1, Lit("treat")), Grp(2, Plus(Cls(Spaces))), Grp(3, Lit("as")), WordB>>),
         ByGroups(<<Tok("Keyword"), Tok("Text"), Tok("Keyword")>>), <<"itemtype">>),  \* L350
    Rule(Cat(<<Grp(1, Words(<<"case", "as">>)), WordB>>),
         Tok("Keyword"), <<"itemtype">>),  \* L352
    Rule(Cat(<<Grp(1, Lit(")")), Grp(2, Star(Cls(Spaces))), Grp(3, Lit("as"))>>),
         ByGroups(<<Tok("Punctuation"), Tok("Text"), Tok("Keyword")>>), <<"itemtype">>),  \* L353
    Rule(Lit("$"),
         Tok("Name.Variable"), <<"varname">>),  \* L355
    Rule(Cat(<<Grp(1, Words(<<"for", "let">>)), Grp(2, Plus(Cls(Spaces))), Grp(3, Lit("$"))>>),
         ByGroups(<<Tok("Keyword"), Tok("Text"), Tok("Name.Variable")>>), <<"varname">>),  \* L356
    Rule(Cls({")", "?", "]"}),
         Tok("Punctuation"), << >>),  \* L359
    Rule(Cat(<<Grp(1, Lit("empty")), Grp(2, Plus(Cls(Spaces))), Grp(3, Words(<<"greatest",
         "least">>))>>),
         ByGroups(<<Tok("Keyword"), Tok("Text"), Tok("Keyword")>>), << >>),  \* L360
    Rule(Words(<<"ascending", "descending", "default">>),
         Tok("Keyword"), <<"#push">>),  \* L361
    Rule(Lit("external"),
         Tok("Keyword"), << >>),  \* L362
    Rule(Lit("collation"),
         Tok("Keyword"), <<"uritooperator">>),  \* L363
    Rule(Cat(<<Lit("\""), Star(Alt(<<Cat(<<Lit("&"), Words(<<"lt", "gt", "amp", "quot", "apos",
         "nbsp">>), Lit(";")>>), Cat(<<Lit("&#"), Alt(<<Cat(<<Plus(Cls(Digits)), Lit(";")>>),
         Cat(<<Lit("x"), Plus(Cls(Digits \cup {"A", "B", "C", "D", "E", "F", "a", "b", "c", "d",
         "e", "f"})), Lit(";")>>)>>)>>), Lit("\"\""), NCls({"\"", "&"})>>)), Lit("\"")>>),
         Tok("Literal.String.Double"), << >>),  \* L365
    Rule(Cat(<<Lit("'"), Star(Alt(<<Cat(<<Lit("&"), Words(<<"lt", "gt", "amp", "quot", "apos",
         "nbsp">>), Lit(";")>>), Cat(<<Lit("&#"), Alt(<<Cat(<<Plus(Cls(Digits)), Lit(";")>>),
         Cat(<<Lit("x"), Plus(Cls(Digits \cup {"A", "B", "C", "D", "E", "F", "a", "b", "c", "d",
         "e", "f"})), Lit(";")>>)>>)>>), Lit("''"), NCls({"&", "'"})>>)), Lit("'")>>),
         Tok("Literal.String.Single"), << >>),  \* L366
    Rule(Cat(<<Grp(1, Lit("catch")), Grp(2, Star(Cls(Spaces)))>>),
         ByGroups(<<Tok("Keyword"), Tok("Text")>>), <<"root">>)  \* L368
  >>

XQuery_uritooperator ==
  <<
    Rule(Cat(<<Lit("\""), Star(Alt(<<Cat(<<Lit("&"), Words(<<"lt", "gt", "amp", "quot", "apos",
         "nbsp">>), Lit(";")>>), Cat(<<Lit("&#"), Alt(<<Cat(<<Plus(Cls(Digits)), Lit(";")>>),
         Cat(<<Lit("x"), Plus(Cls(Digits \cup {"A", "B", "C", "D", "E", "F", "a", "b", "c", "d",
         "e", "f"})), Lit(";")>>)>>)>>), Lit("\"\""), NCls({"\"", "&"})>>)), Lit("\"")>>),
         Tok("Literal.String.Double"), <<"#pop">>),  \* L371
    Rule(Cat(<<Lit("'"), Star(Alt(<<Cat(<<Lit("&"), Words(<<"lt", "gt", "amp", "quot", "apos",
         "nbsp">>), Lit(";")>>), Cat(<<Lit("&#"), Alt(<<Cat(<<Plus(Cls(Digits)), Lit(";")>>),
         Cat(<<Lit("x"), Plus(Cls(Digits \cup {"A", "B", "C", "D", "E", "F", "a", "b", "c", "d",
         "e", "f"})), Lit(";")>>)>>)>>), Lit("''"), NCls({"&", "'"})>>)), Lit("'")>>),
         Tok("Literal.String.Single"), <<"#pop">>)  \* L372
  >>

XQuery_namespacedecl ==
  XQuery_whitespace
  \o
  <<
    Rule(Lit("(:"),
         Tok("Comment"), <<"comment">>),  \* L376
    Rule(Cat(<<Grp(1, Lit("at")), Grp(2, Plus(Cls(Spaces))), Grp(3, Cat(<<Lit("\""),
         Star(Alt(<<Cat(<<Lit("&"), Words(<<"lt", "gt", "amp", "quot", "apos", "nbsp">>),
         Lit(";")>>), Cat(<<Lit("&#"), Alt(<<Cat(<<Plus(Cls(Digits)), Lit(";")>>),
         Cat(<<Lit("x"), Plus(Cls(Digits \cup {"A", "B", "C", "D", "E", "F", "a", "b", "c", "d",
         "e", "f"})), Lit(";")>>)>>)>>), Lit("\"\""), NCls({"\"", "&"})>>)), Lit("\"")>>))>>),
         ByGroups(<<Tok("Keyword"), Tok("Text"), Tok("Literal.String.Double")>>), << >>),  \* L377
    Rule(Cat(<<Grp(1, Lit("at")), Grp(2, Plus(Cls(Spaces))), Grp(3, Cat(<<Lit("'"),
         Star(Alt(<<Cat(<<Lit("&"), Words(<<"lt", "gt", "amp", "quot", "apos", "nbsp">>),
         Lit(";")>>), Cat(<<Lit("&#"), Alt(<<Cat(<<Plus(Cls(Digits)), Lit(";")>>),
         Cat(<<Lit("x"), Plus(Cls(Digits \cup {"A", "B", "C", "D", "E", "F", "a", "b", "c", "d",
         "e", "f"})), Lit(";")>>)>>)>>), Lit("''"), NCls({"&", "'"})>>)), Lit("'")>>))>>),
         ByGroups(<<Tok("Keyword"), Tok("Text"), Tok("Literal.String.Single")>>), << >>),  \* L378
    Rule(Cat(<<Lit("\""), Star(Alt(<<Cat(<<Lit("&"), Words(<<"lt", "gt", "amp", "quot", "apos",
         "nbsp">>), Lit(";")>>), Cat(<<Lit("&#"), Alt(<<Cat(<<Plus(Cls(Digits)), Lit(";")>>),
         Cat(<<Lit("x"), Plus(Cls(Digits \cup {"A", "B", "C", "D", "E", "F", "a", "b", "c", "d",
         "e", "f"})), Lit(";")>>)>>)>>), Lit("\"\""), NCls({"\"", "&"})>>)), Lit("\"")>>),
         Tok("Literal.String.Double"), << >>),  \* L379
    Rule(Cat(<<Lit("'"), Star(Alt(<<Cat(<<Lit("&"), Words(<<"lt", "gt", "amp", "quot", "apos",
         "nbsp">>), Lit(";")>>), Cat(<<Lit("&#"), Alt(<<Cat(<<Plus(Cls(Digits)), Lit(";")>>),
         Cat(<<Lit("x"), Plus(Cls(Digits \cup {"A", "B", "C", "D", "E", "F", "a", "b", "c", "d",
         "e", "f"})), Lit(";")>>)>>)>>), Lit("''"), NCls({"&", "'"})>>)), Lit("'")>>),
         Tok("Literal.String.Single"), << >>),  \* L380
    Rule(Lit(","),
         Tok("Punctuation"), << >>),  \* L381
    Rule(Lit("="),
         Tok("Operator"), << >>),  \* L382
    Rule(Lit(";"),
         Tok("Punctuation"), <<"root">>),  \* L383
    Rule(Cat(<<Plus(Cls(Lowers \cup Uppers \cup {"_"})),
         Star(Cls(Lowers \cup Uppers \cup Digits \cup {"-", ".", "_"}))>>),
         Tok("Name.Namespace"), << >>)  \* L384
  >>

XQuery_namespacekeyword ==
  XQuery_whitespace
  \o
  <<
    Rule(Lit("(:"),
         Tok("Comment"), <<"comment">>),  \* L388
    Rule(Cat(<<Lit("\""), Star(Alt(<<Cat(<<Lit("&"), Words(<<"lt", "gt", "amp", "quot", "apos",
         "nbsp">>), Lit(";")>>), Cat(<<Lit("&#"), Alt(<<Cat(<<Plus(Cls(Digits)), Lit(";")>>),
         Cat(<<Lit("x"), Plus(Cls(Digits \cup {"A", "B", "C", "D", "E", "F", "a", "b", "c", "d",
         "e", "f"})), Lit(";")>>)>>)>>), Lit("\"\""), NCls({"\"", "&"})>>)), Lit("\"")>>),
         Tok("Literal.String.Double"), <<"namespacedecl">>),  \* L389
    Rule(Cat(<<Lit("'"), Star(Alt(<<Cat(<<Lit("&"), Words(<<"lt", "gt", "amp", "quot", "apos",
         "nbsp">>), Lit(";")>>), Cat(<<Lit("&#"), Alt(<<Cat(<<Plus(Cls(Digits)), Lit(";")>>),
         Cat(<<Lit("x"), Plus(Cls(Digits \cup {"A", "B", "C", "D", "E", "F", "a", "b", "c", "d",
         "e", "f"})), Lit(";")>>)>>)>>), Lit("''"), NCls({"&", "'"})>>)), Lit("'")>>),
         Tok("Literal.String.Single"), <<"namespacedecl">>),  \* L390
    Rule(Words(<<"inherit", "no-inherit">>),
         Tok("Keyword"), <<"root">>),  \* L391
    Rule(Lit("namespace"),
         Tok("Keyword"), <<"namespacedecl">>),  \* L392
    Rule(Cat(<<Grp(1, Lit("default")), Grp(2, Plus(Cls(Spaces))), Grp(3, Lit("element"))>>),
         ByGroups(<<Tok("Keyword"), Tok("Text"), Tok("Keyword")>>), << >>),  \* L393
    Rule(Words(<<"preserve", "no-preserve">>),
         Tok("Keyword"), << >>),  \* L394
    Rule(Lit(","),
         Tok("Punctuation"), << >>)  \* L395
  >>

XQuery_varname ==
  <<
    Rule(Lit("(:"),
         Tok("Comment"), <<"comment">>),  \* L398
    Rule(Alt(<<Cat(<<Plus(Cls(Lowers \cup Uppers \cup {"_"})),
         Star(Cls(Lowers \cup Uppers \cup Digits \cup {"-", ".", "_"})), Lit(":"),
         Plus(Cls(Lowers \cup Uppers \cup {"_"})),
         Star(Cls(Lowers \cup Uppers \cup Digits \cup {"-", ".", "_"}))>>),
         Cat(<<Plus(Cls(Lowers \cup Uppers \cup {"_"})),
         Star(Cls(Lowers \cup Uppers \cup Digits \cup {"-", ".", "_"}))>>)>>),
         Tok("Name.Variable"), <<"operator">>)  \* L399
  >>

XQuery_singletype ==
  <<
    Rule(Lit("(:"),
         Tok("Comment"), <<"comment">>),  \* L402
    Rule(Cat(<<Plus(Cls(Lowers \cup Uppers \cup {"_"})),
         Star(Cls(Lowers \cup Uppers \cup Digits \cup {"-", ".", "_"})), Grp(1, Lit(":*"))>>),
         Tok("Name.Variable"), <<"operator">>),  \* L403
    Rule(Alt(<<Cat(<<Plus(Cls(Lowers \cup Uppers \cup {"_"})),
         Star(Cls(Lowers \cup Uppers \cup Digits \cup {"-", ".", "_"})), Lit(":"),
         Plus(Cls(Lowers \cup Uppers \cup {"_"})),
         Star(Cls(Lowers \cup Uppers \cup Digits \cup {"-", ".", "_"}))>>),
         Cat(<<Plus(Cls(Lowers \cup Uppers \cup {"_"})),
         Star(Cls(Lowers \cup Uppers \cup Digits \cup {"-", ".", "_"}))>>)>>),
         Tok("Name.Variable"), <<"operator">>)  \* L404
  >>

XQuery_itemtype ==
  XQuery_whitespace
  \o
  <<
    Rule(Lit("(:"),
         Tok("Comment"), <<"comment">>),  \* L408
    Rule(Lit("$"),
         Tok("Punctuation"), <<"varname">>),  \* L409
    Rule(Cat(<<Grp(1, Lit("void")), Grp(2, Star(Cls(Spaces))), Grp(3, Lit("(")), Grp(4,
         Star(Cls(Spaces))), Grp(5, Lit(")"))>>),
         ByGroups(<<Tok("Keyword"), Tok("Text"), Tok("Punctuation"), Tok("Text"),
              Tok("Punctuation")>>), <<"operator">>),  \* L410
    Rule(Cat(<<Grp(1, Words(<<"element", "attribute", "schema-element", "schema-attribute",
         "comment", "text", "node", "binary", "document-node", "empty-sequence">>)), Grp(2,
         Star(Cls(Spaces))), Grp(3, Lit("("))>>),
         Callback("pushstate_occurrenceindicator_kindtest_callback"), << >>),  \* L412
    Rule(Cat(<<Grp(1, Lit("processing-instruction")), Grp(2, Star(Cls(Spaces))), Grp(3,
         Lit("("))>>),
         ByGroups(<<Tok("Keyword"), Tok("Text"), Tok("Punctuation")>>), <<"occurrenceindicator",
              "kindtestforpi">>),  \* L416
    Rule(Cat(<<Grp(1, Lit("item")), Grp(2, Star(Cls(Spaces))), Grp(3, Lit("(")), Grp(4,
         Star(Cls(Spaces))), Grp(5, Lit(")")), Ahead(Cls({"*", "+", "?"}))>>),
         ByGroups(<<Tok("Keyword"), Tok("Text"), Tok("Punctuation"), Tok("Text"),
              Tok("Punctuation")>>), <<"occurrenceindicator">>),  \* L419
    Rule(Lit("(#"),
         Tok("Punctuation"), <<"pragma">>),  \* L422
    Rule(Lit(";"),
         Tok("Punctuation"), <<"#pop">>),  \* L423
    Rule(Words(<<"then", "else">>),
         Tok("Keyword"), <<"#pop">>),  \* L424
    Rule(Cat(<<Grp(1, Lit("at")), Grp(2, Plus(Cls(Spaces))), Grp(3, Cat(<<Lit("\""),
         Star(Alt(<<Cat(<<Lit("&"), Words(<<"lt", "gt", "amp", "quot", "apos", "nbsp">>),
         Lit(";")>>), Cat(<<Lit("&#"), Alt(<<Cat(<<Plus(Cls(Digits)), Lit(";")>>),
         Cat(<<Lit("x"), Plus(Cls(Digits \cup {"A", "B", "C", "D", "E", "F", "a", "b", "c", "d",
         "e", "f"})), Lit(";")>>)>>)>>), Lit("\"\""), NCls({"\"", "&"})>>)), Lit("\"")>>))>>),
         ByGroups(<<Tok("Keyword"), Tok("Text"), Tok("Literal.String.Double")>>),
              <<"namespacedecl">>),  \* L425
    Rule(Cat(<<Grp(1, Lit("at")), Grp(2, Plus(Cls(Spaces))), Grp(3, Cat(<<Lit("'"),
         Star(Alt(<<Cat(<<Lit("&"), Words(<<"lt", "gt", "amp", "quot", "apos", "nbsp">>),
         Lit(";")>>), Cat(<<Lit("&#"), Alt(<<Cat(<<Plus(Cls(Digits)), Lit(";")>>),
         Cat(<<Lit("x"), Plus(Cls(Digits \cup {"A", "B", "C", "D", "E", "F", "a", "b", "c", "d",
         "e", "f"})), Lit(";")>>)>>)>>), Lit("''"), NCls({"&", "'"})>>)), Lit("'")>>))>>),
         ByGroups(<<Tok("Keyword"), Tok("Text"), Tok("Literal.String.Single")>>),
              <<"namespacedecl">>),  \* L427
    Rule(Words(<<"except", "intersect", "in", "is", "return", "satisfies", "to", "union",
         "where">>),
         Tok("Keyword"), <<"root">>),  \* L429
    Rule(Words(<<"and", "div", "eq", "ge", "gt", "le", "lt", "ne", "idiv", "mod", "or">>),
         Tok("Operator.Word"), <<"root">>),  \* L431
    Rule(Words(<<":=", "=", ",", ">=", ">>", ">", "[", "(", "<=", "<<", "<", "-", "!=", "||",
         "|">>),
         Tok("Operator"), <<"root">>),  \* L432
    Rule(Words(<<"external", "at">>),
         Tok("Keyword"), <<"root">>),  \* L433
    Rule(Cat(<<Grp(1, Lit("stable")), Grp(2, Plus(Cls(Spaces))), Grp(3, Lit("order")), Grp(4,
         Plus(Cls(Spaces))), Grp(5, Lit("by"))>>),
         ByGroups(<<Tok("Keyword"), Tok("Text"), Tok("Keyword"), Tok("Text"), Tok("Keyword")>>),
              <<"root">>),  \* L434
    Rule(Cat(<<Grp(1, Cat(<<Lit("cast"), Alt(<<Lit("able"), Empty>>)>>)), Grp(2,
         Plus(Cls(Spaces))), Grp(3, Lit("as"))>>),
         ByGroups(<<Tok("Keyword"), Tok("Text"), Tok("Keyword")>>), <<"singletype">>),  \* L436
    Rule(Cat(<<Grp(1, Lit("treat")), Grp(2, Plus(Cls(Spaces))), Grp(3, Lit("as"))>>),
         ByGroups(<<Tok("Keyword"), Tok("Text"), Tok("Keyword")>>), << >>),  \* L438
    Rule(Cat(<<Grp(1, Lit("instance")), Grp(2, Plus(Cls(Spaces))), Grp(3, Lit("of"))>>),
         ByGroups(<<Tok("Keyword"), Tok("Text"), Tok("Keyword")>>), << >>),  \* L439
    Rule(Words(<<"case", "as">>),
         Tok("Keyword"), <<"itemtype">>),  \* L440
    Rule(Cat(<<Grp(1, Lit(")")), Grp(2, Star(Cls(Spaces))), Grp(3, Lit("as"))>>),
         ByGroups(<<Tok("Operator"), Tok("Text"), Tok("Keyword")>>), <<"itemtype">>),  \* L441
    Rule(Cat(<<Plus(Cls(Lowers \cup Uppers \cup {"_"})),
         Star(Cls(Lowers \cup Uppers \cup Digits \cup {"-", ".", "_"})), Lit(":*")>>),
         Tok("Keyword.Type"), <<"operator">>),  \* L442
    Rule(Alt(<<Cat(<<Plus(Cls(Lowers \cup Uppers \cup {"_"})),
         Star(Cls(Lowers \cup Uppers \cup Digits \cup {"-", ".", "_"})), Lit(":"),
         Plus(Cls(Lowers \cup Uppers \cup {"_"})),
         Star(Cls(Lowers \cup Uppers \cup Digits \cup {"-", ".", "_"}))>>),
         Cat(<<Plus(Cls(Lowers \cup Uppers \cup {"_"})),
         Star(Cls(Lowers \cup Uppers \cup Digits \cup {"-", ".", "_"}))>>)>>),
         Tok("Keyword.Type"), <<"occurrenceindicator">>)  \* L443
  >>

XQuery_kindtest ==
  <<
    Rule(Lit("(:"),
         Tok("Comment"), <<"comment">>),  \* L446
    Rule(Lit("{"),
         Tok("Punctuation"), <<"root">>),  \* L447
    Rule(Cat(<<Grp(1, Lit(")")), Grp(2, Opt(Cls({"*", "+", "?"})))>>),
         Callback("popstate_kindtest_callback"), << >>),  \* L448
    Rule(Lit("*"),
         Tok("Name"), <<"closekindtest">>),  \* L449
    Rule(Alt(<<Cat(<<Plus(Cls(Lowers \cup Uppers \cup {"_"})),
         Star(Cls(Lowers \cup Uppers \cup Digits \cup {"-", ".", "_"})), Lit(":"),
         Plus(Cls(Lowers \cup Uppers \cup {"_"})),
         Star(Cls(Lowers \cup Uppers \cup Digits \cup {"-", ".", "_"}))>>),
         Cat(<<Plus(Cls(Lowers \cup Uppers \cup {"_"})),
         Star(Cls(Lowers \cup Uppers \cup Digits \cup {"-", ".", "_"}))>>)>>),
         Tok("Name"), <<"closekindtest">>),  \* L450
    Rule(Cat(<<Grp(1, Words(<<"element", "schema-element">>)), Grp(2, Star(Cls(Spaces))), Grp(3,
         Lit("("))>>),
         Callback("pushstate_kindtest_callback"), << >>)  \* L451
  >>

XQuery_kindtestforpi ==
  <<
    Rule(Lit("(:"),
         Tok("Comment"), <<"comment">>),  \* L454
    Rule(Lit(")"),
         Tok("Punctuation"), <<"#pop">>),  \* L455
    Rule(Cat(<<Plus(Cls(Lowers \cup Uppers \cup {"_"})),
         Star(Cls(Lowers \cup Uppers \cup Digits \cup {"-", ".", "_"}))>>),
         Tok("Name.Variable"), << >>),  \* L456
    Rule(Cat(<<Lit("\""), Star(Alt(<<Cat(<<Lit("&"), Words(<<"lt", "gt", "amp", "quot", "apos",
         "nbsp">>), Lit(";")>>), Cat(<<Lit("&#"), Alt(<<Cat(<<Plus(Cls(Digits)), Lit(";")>>),
         Cat(<<Lit("x"), Plus(Cls(Digits \cup {"A", "B", "C", "D", "E", "F", "a", "b", "c", "d",
         "e", "f"})), Lit(";")>>)>>)>>), Lit("\"\""), NCls({"\"", "&"})>>)), Lit("\"")>>),
         Tok("Literal.String.Double"), << >>),  \* L457
    Rule(Cat(<<Lit("'"), Star(Alt(<<Cat(<<Lit("&"), Words(<<"lt", "gt", "amp", "quot", "apos",
         "nbsp">>), Lit(";")>>), Cat(<<Lit("&#"), Alt(<<Cat(<<Plus(Cls(Digits)), Lit(";")>>),
         Cat(<<Lit("x"), Plus(Cls(Digits \cup {"A", "B", "C", "D", "E", "F", "a", "b", "c", "d",
         "e", "f"})), Lit(";")>>)>>)>>), Lit("''"), NCls({"&", "'"})>>)), Lit("'")>>),
         Tok("Literal.String.Single"), << >>)  \* L458
  >>

XQuery_closekindtest ==
  <<
    Rule(Lit("(:"),
         Tok("Comment"), <<"comment">>),  \* L461
    Rule(Grp(1, Lit(")")),
         Callback("popstate_callback"), << >>),  \* L462
    Rule(Lit(","),
         Tok("Punctuation"), << >>),  \* L463
    Rule(Grp(1, Lit("{")),
         Callback("pushstate_operator_root_callback"), << >>),  \* L464
    Rule(Lit("?"),
         Tok("Punctuation"), << >>)  \* L465
  >>

XQuery_xml_comment ==
  <<
    Rule(Grp(1, Lit("-->")),
         Callback("popstate_xmlcomment_callback"), << >>),  \* L468
    Rule(Rep(NCls({"-"}), 1, 2),
         Tok("Literal"), << >>),  \* L469
    Rule(Cls(Printable \cup {"\t", "\n", "\r"}),
         Tok("Literal"), << >>)  \* L470
  >>

XQuery_processing_instruction ==
  <<
    Rule(Plus(Cls(Spaces)),
         Tok("Text"), <<"processing_instruction_content">>),  \* L474
    Rule(Lit("?>"),
         Tok("Literal.String.Doc"), <<"#pop">>),  \* L475
    Rule(Cat(<<Plus(Cls({":", "A", "B", "C", "D", "E", "F", "G", "H", "I", "J", "K", "N", "O",
         "P", "Q", "R", "S", "T", "U", "V", "W", "Y", "Z", "_", "a", "b", "c", "d", "e", "f",
         "g", "h", "i", "j", "k", "n", "o", "p", "q", "r", "s", "t", "u", "v", "w", "y", "z"})),
         Star(Cls(Digits \cup {"-", ".", ":", "A", "B", "C", "D", "E", "F", "G", "H", "I", "J",
         "K", "N", "O", "P", "Q", "R", "S", "T", "U", "V", "W", "Y", "Z", "_", "a", "b", "c",
         "d", "e", "f", "g", "h", "i", "j", "k", "n", "o", "p", "q", "r", "s", "t", "u", "v",
         "w", "y", "z"}))>>),
         Tok("Name"), << >>)  \* L476
  >>

XQuery_processing_instruction_content ==
  <<
    Rule(Lit("?>"),
         Tok("Literal.String.Doc"), <<"#pop">>),  \* L479
    Rule(Cls(Printable \cup {"\t", "\n", "\r"}),
         Tok("Literal"), << >>)  \* L480
  >>

XQuery_cdata_section ==
  <<
    Rule(Lit("]]>"),
         Tok("Literal.String.Doc"), <<"#pop">>),  \* L484
    Rule(Cls(Printable \cup {"\t", "\n", "\r"}),
         Tok("Literal"), << >>)  \* L485
  >>

XQuery_start_tag ==
  XQuery_whitespace
  \o
  <<
    Rule(Grp(1, Lit("/>")),
         Callback("popstate_tag_callback"), << >>),  \* L490
    Rule(Lit(">"),
         Tok("Name.Tag"), <<"element_content">>),  \* L491
    Rule(Lit("\""),
         Tok("Punctuation"), <<"quot_attribute_content">>),  \* L492
    Rule(Lit("'"),
         Tok("Punctuation"), <<"apos_attribute_content">>),  \* L493
    Rule(Lit("="),
         Tok("Operator"), << >>),  \* L494
    Rule(Alt(<<Cat(<<Plus(Cls(Lowers \cup Uppers \cup {"_"})),
         Star(Cls(Lowers \cup Uppers \cup Digits \cup {"-", ".", "_"})), Lit(":"),
         Plus(Cls(Lowers \cup Uppers \cup {"_"})),
         Star(Cls(Lowers \cup Uppers \cup Digits \cup {"-", ".", "_"}))>>),
         Cat(<<Plus(Cls(Lowers \cup Uppers \cup {"_"})),
         Star(Cls(Lowers \cup Uppers \cup Digits \cup {"-", ".", "_"}))>>)>>),
         Tok("Name.Tag"), << >>)  \* L495
  >>

XQuery_quot_attribute_content ==
  <<
    Rule(Lit("\""),
         Tok("Punctuation"), <<"start_tag">>),  \* L498
    Rule(Grp(1, Lit("{")),
         Callback("pushstate_root_callback"), << >>),  \* L499
    Rule(Lit("\"\""),
         Tok("Name.Attribute"), << >>),  \* L500
    Rule(Cls(Spaces \cup Digits \cup Lowers \cup Uppers \cup {"!", "#", "$", "%", "'", "(", ")",
         "*", "+", ",", "-", ".", "/", ":", ";", "=", "?", "@", "[", "\\", "]", "^", "_", "|",
         "~"}),
         Tok("Name.Attribute"), << >>),  \* L501
    Rule(Cat(<<Lit("&"), Words(<<"lt", "gt", "amp", "quot", "apos", "nbsp">>), Lit(";")>>),
         Tok("Name.Attribute"), << >>),  \* L502
    Rule(Cat(<<Lit("&#"), Alt(<<Cat(<<Plus(Cls(Digits)), Lit(";")>>), Cat(<<Lit("x"),
         Plus(Cls(Digits \cup {"A", "B", "C", "D", "E", "F", "a", "b", "c", "d", "e", "f"})),
         Lit(";")>>)>>)>>),
         Tok("Name.Attribute"), << >>),  \* L503
    Rule(Words(<<"{{", "}}">>),
         Tok("Name.Attribute"), << >>)  \* L504
  >>

XQuery_apos_attribute_content ==
  <<
    Rule(Lit("'"),
         Tok("Punctuation"), <<"start_tag">>),  \* L507
    Rule(Lit("{"),
         Tok("Punctuation"), <<"root">>),  \* L508
    Rule(Lit("''"),
         Tok("Name.Attribute"), << >>),  \* L509
    Rule(Cls(Spaces \cup Digits \cup Lowers \cup Uppers \cup {"!", "\"", "#", "$", "%", "(",
         ")", "*", "+", ",", "-", ".", "/", ":", ";", "=", "?", "@", "[", "\\", "]", "^", "_",
         "|", "~"}),
         Tok("Name.Attribute"), << >>),  \* L510
    Rule(Cat(<<Lit("&"), Words(<<"lt", "gt", "amp", "quot", "apos", "nbsp">>), Lit(";")>>),
         Tok("Name.Attribute"), << >>),  \* L511
    Rule(Cat(<<Lit("&#"), Alt(<<Cat(<<Plus(Cls(Digits)), Lit(";")>>), Cat(<<Lit("x"),
         Plus(Cls(Digits \cup {"A", "B", "C", "D", "E", "F", "a", "b", "c", "d", "e", "f"})),
         Lit(";")>>)>>)>>),
         Tok("Name.Attribute"), << >>),  \* L512
    Rule(Words(<<"{{", "}}">>),
         Tok("Name.Attribute"), << >>)  \* L513
  >>

XQuery_element_content ==
  <<
    Rule(Lit("</"),
         Tok("Name.Tag"), <<"end_tag">>),  \* L516
    Rule(Grp(1, Lit("{")),
         Callback("pushstate_root_callback"), << >>),  \* L517
    Rule(Grp(1, Lit("<!--")),
         Callback("pushstate_element_content_xmlcomment_callback"), << >>),  \* L518
    Rule(Grp(1, Lit("<?")),
         Callback("pushstate_element_content_processing_instruction_callback"), << >>),  \* L519
    Rule(Grp(1, Lit("<![CDATA[")),
         Callback("pushstate_element_content_cdata_section_callback"), << >>),  \* L520
    Rule(Grp(1, Lit("<")),
         Callback("pushstate_element_content_starttag_callback"), << >>),  \* L521
    Rule(Cls(Spaces \cup Digits \cup Lowers \cup Uppers \cup {"!", "\"", "#", "$", "%", "'",
         "(", ")", "*", "+", ",", "-", ".", "/", ":", ";", "=", "?", "@", "[", "\\", "]", "^",
         "_", "|", "~"}),
         Tok("Literal"), << >>),  \* L522
    Rule(Cat(<<Lit("&"), Words(<<"lt", "gt", "amp", "quot", "apos", "nbsp">>), Lit(";")>>),
         Tok("Literal"), << >>),  \* L523
    Rule(Cat(<<Lit("&#"), Alt(<<Cat(<<Plus(Cls(Digits)), Lit(";")>>), Cat(<<Lit("x"),
         Plus(Cls(Digits \cup {"A", "B", "C", "D", "E", "F", "a", "b", "c", "d", "e", "f"})),
         Lit(";")>>)>>)>>),
         Tok("Literal"), << >>),  \* L524
    Rule(Words(<<"{{", "}}">>),
         Tok("Literal"), << >>)  \* L525
  >>

XQuery_end_tag ==
  XQuery_whitespace
  \o
  <<
    Rule(Grp(1, Lit(">")),
         Callback("popstate_tag_callback"), << >>),  \* L529
    Rule(Alt(<<Cat(<<Plus(Cls(Lowers \cup Uppers \cup {"_"})),
         Star(Cls(Lowers \cup Uppers \cup Digits \cup {"-", ".", "_"})), Lit(":"),
         Plus(Cls(Lowers \cup Uppers \cup {"_"})),
         Star(Cls(Lowers \cup Uppers \cup Digits \cup {"-", ".", "_"}))>>),
         Cat(<<Plus(Cls(Lowers \cup Uppers \cup {"_"})),
         Star(Cls(Lowers \cup Uppers \cup Digits \cup {"-", ".", "_"}))>>)>>),
         Tok("Name.Tag"), << >>)  \* L530
  >>

XQuery_xmlspace_decl ==
  <<
    Rule(Lit("(:"),
         Tok("Comment"), <<"comment">>),  \* L533
    Rule(Words(<<"preserve", "strip">>),
         Tok("Keyword"), <<"#pop">>)  \* L534
  >>

XQuery_declareordering ==
  <<
    Rule(Lit("(:"),
         Tok("Comment"), <<"comment">>)  \* L537
  >>
  \o
  XQuery_whitespace
  \o
  <<
    Rule(Words(<<"ordered", "unordered">>),
         Tok("Keyword"), <<"#pop">>)  \* L539
  >>

XQuery_xqueryversion ==
  XQuery_whitespace
  \o
  <<
    Rule(Lit("(:"),
         Tok("Comment"), <<"comment">>),  \* L543
    Rule(Cat(<<Lit("\""), Star(Alt(<<Cat(<<Lit("&"), Words(<<"lt", "gt", "amp", "quot", "apos",
         "nbsp">>), Lit(";")>>), Cat(<<Lit("&#"), Alt(<<Cat(<<Plus(Cls(Digits)), Lit(";")>>),
         Cat(<<Lit("x"), Plus(Cls(Digits \cup {"A", "B", "C", "D", "E", "F", "a", "b", "c", "d",
         "e", "f"})), Lit(";")>>)>>)>>), Lit("\"\""), NCls({"\"", "&"})>>)), Lit("\"")>>),
         Tok("Literal.String.Double"), << >>),  \* L544
    Rule(Cat(<<Lit("'"), Star(Alt(<<Cat(<<Lit("&"), Words(<<"lt", "gt", "amp", "quot", "apos",
         "nbsp">>), Lit(";")>>), Cat(<<Lit("&#"), Alt(<<Cat(<<Plus(Cls(Digits)), Lit(";")>>),
         Cat(<<Lit("x"), Plus(Cls(Digits \cup {"A", "B", "C", "D", "E", "F", "a", "b", "c", "d",
         "e", "f"})), Lit(";")>>)>>)>>), Lit("''"), NCls({"&", "'"})>>)), Lit("'")>>),
         Tok("Literal.String.Single"), << >>),  \* L545
    Rule(Lit("encoding"),
         Tok("Keyword"), << >>),  \* L546
    Rule(Lit(";"),
         Tok("Punctuation"), <<"#pop">>)  \* L547
  >>

XQuery_pragma ==
  <<
    Rule(Alt(<<Cat(<<Plus(Cls(Lowers \cup Uppers \cup {"_"})),
         Star(Cls(Lowers \cup Uppers \cup Digits \cup {"-", ".", "_"})), Lit(":"),
         Plus(Cls(Lowers \cup Uppers \cup {"_"})),
         Star(Cls(Lowers \cup Uppers \cup Digits \cup {"-", ".", "_"}))>>),
         Cat(<<Plus(Cls(Lowers \cup Uppers \cup {"_"})),
         Star(Cls(Lowers \cup Uppers \cup Digits \cup {"-", ".", "_"}))>>)>>),
         Tok("Name.Variable"), <<"pragmacontents">>)  \* L550
  >>

XQuery_pragmacontents ==
  <<
    Rule(Lit("#)"),
         Tok("Punctuation"), <<"operator">>),  \* L553
    Rule(Cls(Printable \cup {"\t", "\n", "\r"}),
         Tok("Literal"), << >>),  \* L554
    Rule(Grp(1, Plus(Cls(Spaces))),
         Tok("Text"), << >>)  \* L556
  >>

XQuery_occurrenceindicator ==
  XQuery_whitespace
  \o
  <<
    Rule(Lit("(:"),
         Tok("Comment"), <<"comment">>),  \* L560
    Rule(Cls({"*", "+", "?"}),
         Tok("Operator"), <<"operator">>),  \* L561
    Rule(Lit(":="),
         Tok("Operator"), <<"root">>),  \* L562
    Default(<<"operator">>)  \* L563
  >>

XQuery_option ==
  XQuery_whitespace
  \o
  <<
    Rule(Alt(<<Cat(<<Plus(Cls(Lowers \cup Uppers \cup {"_"})),
         Star(Cls(Lowers \cup Uppers \cup Digits \cup {"-", ".", "_"})), Lit(":"),
         Plus(Cls(Lowers \cup Uppers \cup {"_"})),
         Star(Cls(Lowers \cup Uppers \cup Digits \cup {"-", ".", "_"}))>>),
         Cat(<<Plus(Cls(Lowers \cup Uppers \cup {"_"})),
         Star(Cls(Lowers \cup Uppers \cup Digits \cup {"-", ".", "_"}))>>)>>),
         Tok("Name.Variable"), <<"#pop">>)  \* L567
  >>

XQuery_qname_braren ==
  XQuery_whitespace
  \o
  <<
    Rule(Grp(1, Lit("{")),
         Callback("pushstate_operator_root_callback"), << >>),  \* L571
    Rule(Grp(1, Lit("(")),
         Tok("Punctuation"), <<"root">>)  \* L572
  >>

XQuery_element_qname ==
  <<
    Rule(Alt(<<Cat(<<Plus(Cls(Lowers \cup Uppers \cup {"_"})),
         Star(Cls(Lowers \cup Uppers \cup Digits \cup {"-", ".", "_"})), Lit(":"),
         Plus(Cls(Lowers \cup Uppers \cup {"_"})),
         Star(Cls(Lowers \cup Uppers \cup Digits \cup {"-", ".", "_"}))>>),
         Cat(<<Plus(Cls(Lowers \cup Uppers \cup {"_"})),
         Star(Cls(Lowers \cup Uppers \cup Digits \cup {"-", ".", "_"}))>>)>>),
         Tok("Name.Variable"), <<"root">>)  \* L575
  >>

XQuery_attribute_qname ==
  <<
    Rule(Alt(<<Cat(<<Plus(Cls(Lowers \cup Uppers \cup {"_"})),
         Star(Cls(Lowers \cup Uppers \cup Digits \cup {"-", ".", "_"})), Lit(":"),
         Plus(Cls(Lowers \cup Uppers \cup {"_"})),
         Star(Cls(Lowers \cup Uppers \cup Digits \cup {"-", ".", "_"}))>>),
         Cat(<<Plus(Cls(Lowers \cup Uppers \cup {"_"})),
         Star(Cls(Lowers \cup Uppers \cup Digits \cup {"-", ".", "_"}))>>)>>),
         Tok("Name.Variable"), <<"root">>)  \* L578
  >>

XQuery_root ==
  XQuery_whitespace
  \o
  <<
    Rule(Lit("(:"),
         Tok("Comment"), <<"comment">>),  \* L582
    Rule(Cat(<<Plus(Cls(Digits)), Opt(Grp(1, Cat(<<Lit("."), Star(Cls(Digits))>>))), Cls({"E",
         "e"}), Opt(Cls({"+", "-"})), Plus(Cls(Digits))>>),
         Tok("Literal.Number.Float"), <<"operator">>),  \* L586
    Rule(Cat(<<Grp(1, Cat(<<Lit("."), Plus(Cls(Digits))>>)), Cls({"E", "e"}), Opt(Cls({"+",
         "-"})), Plus(Cls(Digits))>>),
         Tok("Literal.Number.Float"), <<"operator">>),  \* L587
    Rule(Grp(1, Alt(<<Cat(<<Lit("."), Plus(Cls(Digits))>>), Cat(<<Plus(Cls(Digits)), Lit("."),
         Star(Cls(Digits))>>)>>)),
         Tok("Literal.Number.Float"), <<"operator">>),  \* L588
    Rule(Grp(1, Plus(Cls(Digits))),
         Tok("Literal.Number.Integer"), <<"operator">>),  \* L589
    Rule(Grp(1, Words(<<"..", ".", ")">>)),
         Tok("Punctuation"), <<"operator">>),  \* L590
    Rule(Cat(<<Grp(1, Lit("declare")), Grp(2, Plus(Cls(Spaces))), Grp(3,
         Lit("construction"))>>),
         ByGroups(<<Tok("Keyword"), Tok("Text"), Tok("Keyword")>>), <<"operator">>),  \* L591
    Rule(Cat(<<Grp(1, Lit("declare")), Grp(2, Plus(Cls(Spaces))), Grp(3, Lit("default")), Grp(4,
         Plus(Cls(Spaces))), Grp(5, Lit("order"))>>),
         ByGroups(<<Tok("Keyword"), Tok("Text"), Tok("Keyword"), Tok("Text"), Tok("Keyword")>>),
              <<"operator">>),  \* L593
    Rule(Cat(<<Plus(Cls(Lowers \cup Uppers \cup {"_"})),
         Star(Cls(Lowers \cup Uppers \cup Digits \cup {"-", ".", "_"})), Lit(":*")>>),
         Tok("Name"), <<"operator">>),  \* L595
    Rule(Cat(<<Lit("*:"), Plus(Cls(Lowers \cup Uppers \cup {"_"})),
         Star(Cls(Lowers \cup Uppers \cup Digits \cup {"-", ".", "_"}))>>),
         Tok("Name.Tag"), <<"operator">>),  \* L596
    Rule(Lit("*"),
         Tok("Name.Tag"), <<"operator">>),  \* L597
    Rule(Cat(<<Lit("\""), Star(Alt(<<Cat(<<Lit("&"), Words(<<"lt", "gt", "amp", "quot", "apos",
         "nbsp">>), Lit(";")>>), Cat(<<Lit("&#"), Alt(<<Cat(<<Plus(Cls(Digits)), Lit(";")>>),
         Cat(<<Lit("x"), Plus(Cls(Digits \cup {"A", "B", "C", "D", "E", "F", "a", "b", "c", "d",
         "e", "f"})), Lit(";")>>)>>)>>), Lit("\"\""), NCls({"\"", "&"})>>)), Lit("\"")>>),
         Tok("Literal.String.Double"), <<"operator">>),  \* L598
    Rule(Cat(<<Lit("'"), Star(Alt(<<Cat(<<Lit("&"), Words(<<"lt", "gt", "amp", "quot", "apos",
         "nbsp">>), Lit(";")>>), Cat(<<Lit("&#"), Alt(<<Cat(<<Plus(Cls(Digits)), Lit(";")>>),
         Cat(<<Lit("x"), Plus(Cls(Digits \cup {"A", "B", "C", "D", "E", "F", "a", "b", "c", "d",
         "e", "f"})), Lit(";")>>)>>)>>), Lit("''"), NCls({"&", "'"})>>)), Lit("'")>>),
         Tok("Literal.String.Single"), <<"operator">>),  \* L599
    Rule(Grp(1, Lit("}")),
         Callback("popstate_callback"), << >>),  \* L601
    Rule(Cat(<<Grp(1, Lit("declare")), Grp(2, Plus(Cls(Spaces))), Grp(3, Lit("default")), Grp(4,
         Plus(Cls(Spaces))), Grp(5, Lit("collation"))>>),
         ByGroups(<<Tok("Keyword"), Tok("Text"), Tok("Keyword"), Tok("Text"), Tok("Keyword")>>),
              << >>),  \* L604
    Rule(Cat(<<Grp(1, Words(<<"module", "declare">>)), Grp(2, Plus(Cls(Spaces))), Grp(3,
         Lit("namespace"))>>),
         ByGroups(<<Tok("Keyword"), Tok("Text"), Tok("Keyword")>>), <<"namespacedecl">>),  \* L606
    Rule(Cat(<<Grp(1, Lit("declare")), Grp(2, Plus(Cls(Spaces))), Grp(3, Lit("base-uri"))>>),
         ByGroups(<<Tok("Keyword"), Tok("Text"), Tok("Keyword")>>), <<"namespacedecl">>),  \* L608
    Rule(Cat(<<Grp(1, Lit("declare")), Grp(2, Plus(Cls(Spaces))), Grp(3, Lit("default")), Grp(4,
         Plus(Cls(Spaces))), Grp(5, Words(<<"element", "function">>))>>),
         ByGroups(<<Tok("Keyword"), Tok("Text"), Tok("Keyword"), Tok("Text"), Tok("Keyword")>>),
              <<"namespacekeyword">>),  \* L612
    Rule(Cat(<<Grp(1, Lit("import")), Grp(2, Plus(Cls(Spaces))), Grp(3, Words(<<"schema",
         "module">>))>>),
         ByGroups(<<Tok("Keyword.Pseudo"), Tok("Text"), Tok("Keyword.Pseudo")>>),
              <<"namespacekeyword">>),  \* L614
    Rule(Cat(<<Grp(1, Lit("declare")), Grp(2, Plus(Cls(Spaces))), Grp(3,
         Lit("copy-namespaces"))>>),
         ByGroups(<<Tok("Keyword"), Tok("Text"), Tok("Keyword")>>), <<"namespacekeyword">>),  \* L616
    Rule(Cat(<<Grp(1, Words(<<"for", "let", "some", "every">>)), Grp(2, Plus(Cls(Spaces))),
         Grp(3, Lit("$"))>>),
         ByGroups(<<Tok("Keyword"), Tok("Text"), Tok("Name.Variable")>>), <<"varname">>),  \* L620
    Rule(Lit("$"),
         Tok("Name.Variable"), <<"varname">>),  \* L622
    Rule(Cat(<<Grp(1, Lit("declare")), Grp(2, Plus(Cls(Spaces))), Grp(3, Lit("variable")),
         Grp(4, Plus(Cls(Spaces))), Grp(5, Lit("$"))>>),
         ByGroups(<<Tok("Keyword"), Tok("Text"), Tok("Keyword"), Tok("Text"),
              Tok("Name.Variable")>>), <<"varname">>),  \* L623
    Rule(Cat(<<Grp(1, Lit(")")), Grp(2, Plus(Cls(Spaces))), Grp(3, Lit("as"))>>),
         ByGroups(<<Tok("Operator"), Tok("Text"), Tok("Keyword")>>), <<"itemtype">>),  \* L627
    Rule(Cat(<<Grp(1, Words(<<"element", "attribute", "schema-element", "schema-attribute",
         "comment", "text", "node", "document-node", "empty-sequence">>)), Grp(2,
         Plus(Cls(Spaces))), Grp(3, Lit("("))>>),
         Callback("pushstate_operator_kindtest_callback"), << >>),  \* L629
    Rule(Cat(<<Grp(1, Lit("processing-instruction")), Grp(2, Plus(Cls(Spaces))), Grp(3,
         Lit("("))>>),
         Callback("pushstate_operator_kindtestforpi_callback"), << >>),  \* L633
    Rule(Grp(1, Lit("<!--")),
         Callback("pushstate_operator_xmlcomment_callback"), << >>),  \* L636
    Rule(Grp(1, Lit("<?")),
         Callback("pushstate_operator_processing_instruction_callback"), << >>),  \* L638
    Rule(Grp(1, Lit("<![CDATA[")),
         Callback("pushstate_operator_cdata_section_callback"), << >>),  \* L640
    Rule(Grp(1, Lit("<")),
         Callback("pushstate_operator_starttag_callback"), << >>),  \* L643
    Rule(Cat(<<Grp(1, Lit("declare")), Grp(2, Plus(Cls(Spaces))), Grp(3,
         Lit("boundary-space"))>>),
         ByGroups(<<Tok("Keyword"), Tok("Text"), Tok("Keyword")>>), <<"xmlspace_decl">>),  \* L645
    Rule(Cat(<<Grp(1, Lit("validate")), Grp(2, Plus(Cls(Spaces))), Grp(3, Words(<<"lax",
         "strict">>))>>),
         Callback("pushstate_operator_root_validate_withmode"), << >>),  \* L648
    Rule(Cat(<<Grp(1, Lit("validate")), Grp(2, Star(Cls(Spaces))), Grp(3, Lit("{"))>>),
         Callback("pushstate_operator_root_validate"), << >>),  \* L650
    Rule(Cat(<<Grp(1, Lit("typeswitch")), Grp(2, Star(Cls(Spaces))), Grp(3, Lit("("))>>),
         ByGroups(<<Tok("Keyword"), Tok("Text"), Tok("Punctuation")>>), << >>),  \* L651
    Rule(Cat(<<Grp(1, Words(<<"element", "attribute">>)), Grp(2, Star(Cls(Spaces))), Grp(3,
         Lit("{"))>>),
         Callback("pushstate_operator_root_construct_callback"), << >>),  \* L652
    Rule(Cat(<<Grp(1, Words(<<"document", "text", "processing-instruction", "comment">>)),
         Grp(2, Star(Cls(Spaces))), Grp(3, Lit("{"))>>),
         Callback("pushstate_operator_root_construct_callback"), << >>),  \* L655
    Rule(Cat(<<Grp(1, Lit("attribute")), Grp(2, Plus(Cls(Spaces))),
         Ahead(Alt(<<Cat(<<Plus(Cls(Lowers \cup Uppers \cup {"_"})),
         Star(Cls(Lowers \cup Uppers \cup Digits \cup {"-", ".", "_"})), Lit(":"),
         Plus(Cls(Lowers \cup Uppers \cup {"_"})),
         Star(Cls(Lowers \cup Uppers \cup Digits \cup {"-", ".", "_"}))>>),
         Cat(<<Plus(Cls(Lowers \cup Uppers \cup {"_"})),
         Star(Cls(Lowers \cup Uppers \cup Digits \cup {"-", ".", "_"}))>>)>>))>>),
         ByGroups(<<Tok("Keyword"), Tok("Text")>>), <<"attribute_qname">>),  \* L658
    Rule(Cat(<<Grp(1, Lit("element")), Grp(2, Plus(Cls(Spaces))),
         Ahead(Alt(<<Cat(<<Plus(Cls(Lowers \cup Uppers \cup {"_"})),
         Star(Cls(Lowers \cup Uppers \cup Digits \cup {"-", ".", "_"})), Lit(":"),
         Plus(Cls(Lowers \cup Uppers \cup {"_"})),
         Star(Cls(Lowers \cup Uppers \cup Digits \cup {"-", ".", "_"}))>>),
         Cat(<<Plus(Cls(Lowers \cup Uppers \cup {"_"})),
         Star(Cls(Lowers \cup Uppers \cup Digits \cup {"-", ".", "_"}))>>)>>))>>),
         ByGroups(<<Tok("Keyword"), Tok("Text")>>), <<"element_qname">>),  \* L661
    Rule(Cat(<<Grp(1, Lit("processing-instruction")), Grp(2, Plus(Cls(Spaces))), Grp(3,
         Cat(<<Plus(Cls(Lowers \cup Uppers \cup {"_"})),
         Star(Cls(Lowers \cup Uppers \cup Digits \cup {"-", ".", "_"}))>>)), Grp(4,
         Star(Cls(Spaces))), Grp(5, Lit("{"))>>),
         ByGroups(<<Tok("Keyword"), Tok("Text"), Tok("Name.Variable"), Tok("Text"),
              Tok("Punctuation")>>), <<"operator">>),  \* L664
    Rule(Cat(<<Grp(1, Cat(<<Lit("de"), Words(<<"clare", "fine">>)>>)), Grp(2,
         Plus(Cls(Spaces))), Grp(3, Lit("function"))>>),
         ByGroups(<<Tok("Keyword"), Tok("Text"), Tok("Keyword")>>), << >>),  \* L668
    Rule(Grp(1, Lit("{")),
         Callback("pushstate_operator_root_callback"), << >>),  \* L671
    Rule(Cat(<<Grp(1, Words(<<"unordered", "ordered">>)), Grp(2, Star(Cls(Spaces))), Grp(3,
         Lit("{"))>>),
         Callback("pushstate_operator_order_callback"), << >>),  \* L673
    Rule(Cat(<<Grp(1, Lit("declare")), Grp(2, Plus(Cls(Spaces))), Grp(3, Lit("ordering"))>>),
         ByGroups(<<Tok("Keyword"), Tok("Text"), Tok("Keyword")>>), <<"declareordering">>),  \* L676
    Rule(Cat(<<Grp(1, Lit("xquery")), Grp(2, Plus(Cls(Spaces))), Grp(3, Lit("version"))>>),
         ByGroups(<<Tok("Keyword.Pseudo"), Tok("Text"), Tok("Keyword.Pseudo")>>),
              <<"xqueryversion">>),  \* L679
    Rule(Grp(1, Lit("(#")),
         Tok("Punctuation"), <<"pragma">>),  \* L682
    Rule(Lit("return"),
         Tok("Keyword"), << >>),  \* L685
    Rule(Cat(<<Grp(1, Lit("declare")), Grp(2, Plus(Cls(Spaces))), Grp(3, Lit("option"))>>),
         ByGroups(<<Tok("Keyword"), Tok("Text"), Tok("Keyword")>>), <<"option">>),  \* L687
    Rule(Cat(<<Grp(1, Lit("at")), Grp(2, Plus(Cls(Spaces))), Grp(3, Cat(<<Lit("\""),
         Star(Alt(<<Cat(<<Lit("&"), Words(<<"lt", "gt", "amp", "quot", "apos", "nbsp">>),
         Lit(";")>>), Cat(<<Lit("&#"), Alt(<<Cat(<<Plus(Cls(Digits)), Lit(";")>>),
         Cat(<<Lit("x"), Plus(Cls(Digits \cup {"A", "B", "C", "D", "E", "F", "a", "b", "c", "d",
         "e", "f"})), Lit(";")>>)>>)>>), Lit("\"\""), NCls({"\"", "&"})>>)), Lit("\"")>>))>>),
         Tok("Literal.String.Double"), <<"namespacedecl">>),  \* L691
    Rule(Cat(<<Grp(1, Lit("at")), Grp(2, Plus(Cls(Spaces))), Grp(3, Cat(<<Lit("'"),
         Star(Alt(<<Cat(<<Lit("&"), Words(<<"lt", "gt", "amp", "quot", "apos", "nbsp">>),
         Lit(";")>>), Cat(<<Lit("&#"), Alt(<<Cat(<<Plus(Cls(Digits)), Lit(";")>>),
         Cat(<<Lit("x"), Plus(Cls(Digits \cup {"A", "B", "C", "D", "E", "F", "a", "b", "c", "d",
         "e", "f"})), Lit(";")>>)>>)>>), Lit("''"), NCls({"&", "'"})>>)), Lit("'")>>))>>),
         Tok("Literal.String.Single"), <<"namespacedecl">>),  \* L692
    Rule(Cat(<<Grp(1, Words(<<"ancestor-or-self", "ancestor", "attribute", "child",
         "descendant-or-self">>)), Grp(2, Lit("::"))>>),
         ByGroups(<<Tok("Keyword"), Tok("Punctuation")>>), << >>),  \* L694
    Rule(Cat(<<Grp(1, Words(<<"descendant", "following-sibling", "following", "parent",
         "preceding-sibling", "preceding", "self">>)), Grp(2, Lit("::"))>>),
         ByGroups(<<Tok("Keyword"), Tok("Punctuation")>>), << >>),  \* L696
    Rule(Cat(<<Grp(1, Lit("if")), Grp(2, Star(Cls(Spaces))), Grp(3, Lit("("))>>),
         ByGroups(<<Tok("Keyword"), Tok("Text"), Tok("Punctuation")>>), << >>),  \* L699
    Rule(Words(<<"then", "else">>),
         Tok("Keyword"), << >>),  \* L701
    Rule(Cat(<<Grp(1, Lit("try")), Grp(2, Star(Cls(Spaces)))>>),
         ByGroups(<<Tok("Keyword"), Tok("Text")>>), <<"root">>),  \* L704
    Rule(Cat(<<Grp(1, Lit("catch")), Grp(2, Star(Cls(Spaces))), Grp(3, Lit("(")), Grp(4,
         Lit("$"))>>),
         ByGroups(<<Tok("Keyword"), Tok("Text"), Tok("Punctuation"), Tok("Name.Variable")>>),
              <<"varname">>),  \* L705
    Rule(Grp(1, Cat(<<Lit("@"), Alt(<<Cat(<<Plus(Cls(Lowers \cup Uppers \cup {"_"})),
         Star(Cls(Lowers \cup Uppers \cup Digits \cup {"-", ".", "_"})), Lit(":"),
         Plus(Cls(Lowers \cup Uppers \cup {"_"})),
         Star(Cls(Lowers \cup Uppers \cup Digits \cup {"-", ".", "_"}))>>),
         Cat(<<Plus(Cls(Lowers \cup Uppers \cup {"_"})),
         Star(Cls(Lowers \cup Uppers \cup Digits \cup {"-", ".", "_"}))>>)>>)>>)),
         Tok("Name.Attribute"), << >>),  \* L708
    Rule(Grp(1, Cat(<<Lit("@"), Plus(Cls(Lowers \cup Uppers \cup {"_"})),
         Star(Cls(Lowers \cup Uppers \cup Digits \cup {"-", ".", "_"}))>>)),
         Tok("Name.Attribute"), << >>),  \* L709
    Rule(Cat(<<Lit("@*:"), Plus(Cls(Lowers \cup Uppers \cup {"_"})),
         Star(Cls(Lowers \cup Uppers \cup Digits \cup {"-", ".", "_"}))>>),
         Tok("Name.Attribute"), << >>),  \* L710
    Rule(Grp(1, Lit("@")),
         Tok("Name.Attribute"), << >>),  \* L711
    Rule(Words(<<"//", "/", "+", "-", ";", ",", "(", ")">>),
         Tok("Punctuation"), << >>),  \* L713
    Rule(Cat(<<Alt(<<Cat(<<Plus(Cls(Lowers \cup Uppers \cup {"_"})),
         Star(Cls(Lowers \cup Uppers \cup Digits \cup {"-", ".", "_"})), Lit(":"),
         Plus(Cls(Lowers \cup Uppers \cup {"_"})),
         Star(Cls(Lowers \cup Uppers \cup Digits \cup {"-", ".", "_"}))>>),
         Cat(<<Plus(Cls(Lowers \cup Uppers \cup {"_"})),
         Star(Cls(Lowers \cup Uppers \cup Digits \cup {"-", ".", "_"}))>>)>>),
         Ahead(Cat(<<Star(Cls(Spaces)), Lit("{")>>))>>),
         Tok("Name.Tag"), <<"qname_braren">>),  \* L716
    Rule(Cat(<<Alt(<<Cat(<<Plus(Cls(Lowers \cup Uppers \cup {"_"})),
         Star(Cls(Lowers \cup Uppers \cup Digits \cup {"-", ".", "_"})), Lit(":"),
         Plus(Cls(Lowers \cup Uppers \cup {"_"})),
         Star(Cls(Lowers \cup Uppers \cup Digits \cup {"-", ".", "_"}))>>),
         Cat(<<Plus(Cls(Lowers \cup Uppers \cup {"_"})),
         Star(Cls(Lowers \cup Uppers \cup Digits \cup {"-", ".", "_"}))>>)>>),
         Ahead(Cat(<<Star(Cls(Spaces)), Lit("("), NCls({":"})>>))>>),
         Tok("Name.Function"), <<"qname_braren">>),  \* L717
    Rule(Alt(<<Cat(<<Plus(Cls(Lowers \cup Uppers \cup {"_"})),
         Star(Cls(Lowers \cup Uppers \cup Digits \cup {"-", ".", "_"})), Lit(":"),
         Plus(Cls(Lowers \cup Uppers \cup {"_"})),
         Star(Cls(Lowers \cup Uppers \cup Digits \cup {"-", ".", "_"}))>>),
         Cat(<<Plus(Cls(Lowers \cup Uppers \cup {"_"})),
         Star(Cls(Lowers \cup Uppers \cup Digits \cup {"-", ".", "_"}))>>)>>),
         Tok("Name.Tag"), <<"operator">>)  \* L718
  >>

XQueryLexer_tokens ==
  ("comment" :> XQuery_comment)
  @@ ("whitespace" :> XQuery_whitespace)
  @@ ("operator" :> XQuery_operator)
  @@ ("uritooperator" :> XQuery_uritooperator)
  @@ ("namespacedecl" :> XQuery_namespacedecl)
  @@ ("namespacekeyword" :> XQuery_namespacekeyword)
  @@ ("varname" :> XQuery_varname)
  @@ ("singletype" :> XQuery_singletype)
  @@ ("itemtype" :> XQuery_itemtype)
  @@ ("kindtest" :> XQuery_kindtest)
  @@ ("kindtestforpi" :> XQuery_kindtestforpi)
  @@ ("closekindtest" :> XQuery_closekindtest)
  @@ ("xml_comment" :> XQuery_xml_comment)
  @@ ("processing_instruction" :> XQuery_processing_instruction)
  @@ ("processing_instruction_content" :> XQuery_processing_instruction_content)
  @@ ("cdata_section" :> XQuery_cdata_section)
  @@ ("start_tag" :> XQuery_start_tag)
  @@ ("quot_attribute_content" :> XQuery_quot_attribute_content)
  @@ ("apos_attribute_content" :> XQuery_apos_attribute_content)
  @@ ("element_content" :> XQuery_element_content)
  @@ ("end_tag" :> XQuery_end_tag)
  @@ ("xmlspace_decl" :> XQuery_xmlspace_decl)
  @@ ("declareordering" :> XQuery_declareordering)
  @@ ("xqueryversion" :> XQuery_xqueryversion)
  @@ ("pragma" :> XQuery_pragma)
  @@ ("pragmacontents" :> XQuery_pragmacontents)
  @@ ("occurrenceindicator" :> XQuery_occurrenceindicator)
  @@ ("option" :> XQuery_option)
  @@ ("qname_braren" :> XQuery_qname_braren)
  @@ ("element_qname" :> XQuery_element_qname)
  @@ ("attribute_qname" :> XQuery_attribute_qname)
  @@ ("root" :> XQuery_root)

(* QmlLexer.tokens *)
Qml_flags == Flags(FALSE, TRUE, FALSE)

Qml_commentsandwhitespace ==
  <<
    Rule(Plus(Cls(Spaces)),
         Tok("Text"), << >>),  \* L742
    Rule(Lit("<!--"),
         Tok("Comment"), << >>),  \* L743
    Rule(Cat(<<Lit("//"), StarLazy(Dot), Lit("\n")>>),
         Tok("Comment.Single"), << >>),  \* L744
    Rule(Cat(<<Lit("/*"), StarLazy(Dot), Lit("*/")>>),
         Tok("Comment.Multiline"), << >>)  \* L745
  >>

(* QmlLexer.tokens['slashstartsregex'] with 'badregex' pushed on top of    *)
(* 'slashstartsregex' in place of ('#pop', 'badregex').                    *)
Qml_slashstartsregex_badregex_pushed ==
  Qml_commentsandwhitespace
  \o
  <<
    Rule(Cat(<<Lit("/"), Plus(Grp(1, Alt(<<Cat(<<Lit("\\"), Dot>>), NCls({"\n", "/", "[",
         "\\"}), Cat(<<Lit("["), Star(Grp(2, Alt(<<Cat(<<Lit("\\"), Dot>>), NCls({"\n", "\\",
         "]"})>>))), Lit("]")>>)>>))), Lit("/"), Grp(3, Alt(<<Cat(<<Plus(Cls({"g", "i", "m"})),
         WordB>>), NotWordB>>))>>),
         Tok("Literal.String.Regex"), <<"#pop">>),  \* L749
    Rule(Ahead(Lit("/")),
         Tok("Text"), <<"badregex">>),  \* L751
    Default(<<"#pop">>)  \* L752
  >>

Qml_slashstartsregex ==
  Qml_commentsandwhitespace
  \o
  <<
    Rule(Cat(<<Lit("/"), Plus(Grp(1, Alt(<<Cat(<<Lit("\\"), Dot>>), NCls({"\n", "/", "[",
         "\\"}), Cat(<<Lit("["), Star(Grp(2, Alt(<<Cat(<<Lit("\\"), Dot>>), NCls({"\n", "\\",
         "]"})>>))), Lit("]")>>)>>))), Lit("/"), Grp(3, Alt(<<Cat(<<Plus(Cls({"g", "i", "m"})),
         WordB>>), NotWordB>>))>>),
         Tok("Literal.String.Regex"), <<"#pop">>),  \* L749
    Rule(Ahead(Lit("/")),
         Tok("Text"), <<"#pop", "badregex">>),  \* L751
    Default(<<"#pop">>)  \* L752
  >>

Qml_badregex ==
  <<
    Rule(Lit("\n"),
         Tok("Text"), <<"#pop">>)  \* L755
  >>

(* QmlLexer.tokens['root'] with the lookahead of its first rule removed: the *)
(* rule matches at the start of any text.                                  *)
Qml_root_no_lookahead ==
  <<
    Rule(Bol,
         Tok("Text"), <<"slashstartsregex">>)  \* L758
  >>
  \o
  Qml_commentsandwhitespace
  \o
  <<
    Rule(Alt(<<Lit("++"), Lit("--"), Lit("~"), Lit("&&"), Lit("?"), Lit(":"), Lit("||"),
         Cat(<<Lit("\\"), Ahead(Lit("\n"))>>), Cat(<<Grp(1, Alt(<<Lit("<<"), Cat(<<Lit(">>"),
         Opt(Lit(">"))>>), Cat(<<Lit("="), Opt(Lit("="))>>), Cat(<<Lit("!"), Opt(Lit("="))>>),
         Cls({"%", "&", "*", "+", "-", "/", "<", ">", "^", "|"})>>)), Opt(Lit("="))>>)>>),
         Tok("Operator"), <<"slashstartsregex">>),  \* L760
    Rule(Cls({"(", ",", ";", "[", "{"}),
         Tok("Punctuation"), <<"slashstartsregex">>),  \* L762
    Rule(Cls({")", ".", "]", "}"}),
         Tok("Punctuation"), << >>),  \* L763
    Rule(Cat(<<WordB, Lit("id"), Star(Cls(Spaces)), Lit(":"), Star(Cls(Spaces)),
         Cls(Lowers \cup Uppers), Star(Cls(Lowers \cup Uppers \cup Digits \cup {".", "_"}))>>),
         Tok("Keyword.Declaration"), <<"slashstartsregex">>),  \* L766
    Rule(Cat(<<WordB, Cls(Lowers \cup Uppers),
         Star(Cls(Lowers \cup Uppers \cup Digits \cup {".", "_"})), Star(Cls(Spaces)),
         Lit(":")>>),
         Tok("Keyword"), <<"slashstartsregex">>),  \* L768
    Rule(Cat(<<Grp(1, Words(<<"for", "in", "while", "do", "break", "return", "continue",
         "switch", "case", "default", "if", "else", "throw", "try", "catch", "finally", "new",
         "delete", "typeof", "instanceof", "void", "this">>)), WordB>>),
         Tok("Keyword"), <<"slashstartsregex">>),  \* L771
    Rule(Cat(<<Grp(1, Words(<<"var", "let", "with", "function">>)), WordB>>),
         Tok("Keyword.Declaration"), <<"slashstartsregex">>),  \* L774
    Rule(Cat(<<Grp(1, Words(<<"abstract", "boolean", "byte", "char", "class", "const",
         "debugger", "double", "enum", "export", "extends", "final", "float", "goto",
         "implements", "import", "int", "interface", "long", "native", "package", "private",
         "protected", "public", "short", "static", "super", "synchronized", "throws",
         "transient", "volatile">>)), WordB>>),
         Tok("Keyword.Reserved"), << >>),  \* L775
    Rule(Cat(<<Grp(1, Words(<<"true", "false", "null", "NaN", "Infinity", "undefined">>)),
         WordB>>),
         Tok("Keyword.Constant"), << >>),  \* L779
    Rule(Cat(<<Grp(1, Words(<<"Array", "Boolean", "Date", "Error", "Function", "Math",
         "netscape", "Number", "Object", "Packages", "RegExp", "String", "sun", "decodeURI",
         "decodeURIComponent", "encodeURI", "encodeURIComponent", "Error", "eval", "isFinite",
         "isNaN", "parseFloat", "parseInt", "document", "this", "window">>)), WordB>>),
         Tok("Name.Builtin"), << >>),  \* L780
    Rule(Cat(<<Cls(Lowers \cup Uppers \cup {"$", "_"}), Star(Cls(WordChars))>>),
         Tok("Name.Other"), << >>),  \* L785
    Rule(Cat(<<Cls(Digits), Star(Cls(Digits)), Lit("."), Plus(Cls(Digits)), Opt(Grp(1,
         Cat(<<Cls({"E", "e"}), Plus(Cls(Digits))>>))), Opt(Cls({"d", "f"}))>>),
         Tok("Literal.Number.Float"), << >>),  \* L786
    Rule(Cat(<<Lit("0x"), Plus(Cls(Digits \cup {"A", "B", "C", "D", "E", "F", "a", "b", "c",
         "d", "e", "f"}))>>),
         Tok("Literal.Number.Hex"), << >>),  \* L787
    Rule(Plus(Cls(Digits)),
         Tok("Literal.Number.Integer"), << >>),  \* L788
    Rule(Cat(<<Lit("\""), Star(Grp(1, Alt(<<Lit("\\\\"), Lit("\\\""), NCls({"\""})>>))),
         Lit("\"")>>),
         Tok("Literal.String.Double"), << >>),  \* L789
    Rule(Cat(<<Lit("'"), Star(Grp(1, Alt(<<Lit("\\\\"), Lit("\\'"), NCls({"'"})>>))),
         Lit("'")>>),
         Tok("Literal.String.Single"), << >>)  \* L790
  >>

Qml_root ==
  <<
    Rule(Cat(<<Bol, Ahead(Alt(<<Cls(Spaces), Lit("/"), Lit("<!--")>>))>>),
         Tok("Text"), <<"slashstartsregex">>)  \* L758
  >>
  \o
  Qml_commentsandwhitespace
  \o
  <<
    Rule(Alt(<<Lit("++"), Lit("--"), Lit("~"), Lit("&&"), Lit("?"), Lit(":"), Lit("||"),
         Cat(<<Lit("\\"), Ahead(Lit("\n"))>>), Cat(<<Grp(1, Alt(<<Lit("<<"), Cat(<<Lit(">>"),
         Opt(Lit(">"))>>), Cat(<<Lit("="), Opt(Lit("="))>>), Cat(<<Lit("!"), Opt(Lit("="))>>),
         Cls({"%", "&", "*", "+", "-", "/", "<", ">", "^", "|"})>>)), Opt(Lit("="))>>)>>),
         Tok("Operator"), <<"slashstartsregex">>),  \* L760
    Rule(Cls({"(", ",", ";", "[", "{"}),
         Tok("Punctuation"), <<"slashstartsregex">>),  \* L762
    Rule(Cls({")", ".", "]", "}"}),
         Tok("Punctuation"), << >>),  \* L763
    Rule(Cat(<<WordB, Lit("id"), Star(Cls(Spaces)), Lit(":"), Star(Cls(Spaces)),
         Cls(Lowers \cup Uppers), Star(Cls(Lowers \cup Uppers \cup Digits \cup {".", "_"}))>>),
         Tok("Keyword.Declaration"), <<"slashstartsregex">>),  \* L766
    Rule(Cat(<<WordB, Cls(Lowers \cup Uppers),
         Star(Cls(Lowers \cup Uppers \cup Digits \cup {".", "_"})), Star(Cls(Spaces)),
         Lit(":")>>),
         Tok("Keyword"), <<"slashstartsregex">>),  \* L768
    Rule(Cat(<<Grp(1, Words(<<"for", "in", "while", "do", "break", "return", "continue",
         "switch", "case", "default", "if", "else", "throw", "try", "catch", "finally", "new",
         "delete", "typeof", "instanceof", "void", "this">>)), WordB>>),
         Tok("Keyword"), <<"slashstartsregex">>),  \* L771
    Rule(Cat(<<Grp(1, Words(<<"var", "let", "with", "function">>)), WordB>>),
         Tok("Keyword.Declaration"), <<"slashstartsregex">>),  \* L774
    Rule(Cat(<<Grp(1, Words(<<"abstract", "boolean", "byte", "char", "class", "const",
         "debugger", "double", "enum", "export", "extends", "final", "float", "goto",
         "implements", "import", "int", "interface", "long", "native", "package", "private",
         "protected", "public", "short", "static", "super", "synchronized", "throws",
         "transient", "volatile">>)), WordB>>),
         Tok("Keyword.Reserved"), << >>),  \* L775
    Rule(Cat(<<Grp(1, Words(<<"true", "false", "null", "NaN", "Infinity", "undefined">>)),
         WordB>>),
         Tok("Keyword.Constant"), << >>),  \* L779
    Rule(Cat(<<Grp(1, Words(<<"Array", "Boolean", "Date", "Error", "Function", "Math",
         "netscape", "Number", "Object", "Packages", "RegExp", "String", "sun", "decodeURI",
         "decodeURIComponent", "encodeURI", "encodeURIComponent", "Error", "eval", "isFinite",
         "isNaN", "parseFloat", "parseInt", "document", "this", "window">>)), WordB>>),
         Tok("Name.Builtin"), << >>),  \* L780
    Rule(Cat(<<Cls(Lowers \cup Uppers \cup {"$", "_"}), Star(Cls(WordChars))>>),
         Tok("Name.Other"), << >>),  \* L785
    Rule(Cat(<<Cls(Digits), Star(Cls(Digits)), Lit("."), Plus(Cls(Digits)), Opt(Grp(1,
         Cat(<<Cls({"E", "e"}), Plus(Cls(Digits))>>))), Opt(Cls({"d", "f"}))>>),
         Tok("Literal.Number.Float"), << >>),  \* L786
    Rule(Cat(<<Lit("0x"), Plus(Cls(Digits \cup {"A", "B", "C", "D", "E", "F", "a", "b", "c",
         "d", "e", "f"}))>>),
         Tok("Literal.Number.Hex"), << >>),  \* L787
    Rule(Plus(Cls(Digits)),
         Tok("Literal.Number.Integer"), << >>),  \* L788
    Rule(Cat(<<Lit("\""), Star(Grp(1, Alt(<<Lit("\\\\"), Lit("\\\""), NCls({"\""})>>))),
         Lit("\"")>>),
         Tok("Literal.String.Double"), << >>),  \* L789
    Rule(Cat(<<Lit("'"), Star(Grp(1, Alt(<<Lit("\\\\"), Lit("\\'"), NCls({"'"})>>))),
         Lit("'")>>),
         Tok("Literal.String.Single"), << >>)  \* L790
  >>

QmlLexer_tokens ==
  ("commentsandwhitespace" :> Qml_commentsandwhitespace)
  @@ ("slashstartsregex" :> Qml_slashstartsregex)
  @@ ("badregex" :> Qml_badregex)
  @@ ("root" :> Qml_root)

(* CirruLexer.tokens *)
Cirru_flags == Flags(FALSE, FALSE, TRUE)

Cirru_string ==
  <<
    Rule(NCls({"\n", "\"", "\\"}),
         Tok("Literal.String"), << >>),  \* L816
    Rule(Lit("\\"),
         Tok("Literal.String.Escape"), <<"escape">>),  \* L817
    Rule(Lit("\""),
         Tok("Literal.String"), <<"#pop">>)  \* L818
  >>

Cirru_escape ==
  <<
    Rule(Dot,
         Tok("Literal.String.Escape"), <<"#pop">>)  \* L821
  >>

(* CirruLexer.tokens['function'] with no transition on the lookahead for a *)
(* line break.                                                             *)
Cirru_function_lookahead_stays ==
  <<
    Rule(Cat(<<Cls(WordChars \cup {"-"}), Star(NCls(Spaces \cup {"\"", "(", ")"}))>>),
         Tok("Name.Function"), <<"#pop">>),  \* L824
    Rule(Lit(")"),
         Tok("Operator"), <<"#pop">>),  \* L825
    Rule(Ahead(Lit("\n")),
         Tok("Text"), << >>),  \* L826
    Rule(Lit("("),
         Tok("Operator"), <<"#push">>),  \* L827
    Rule(Lit("\""),
         Tok("Literal.String"), <<"#pop", "string">>),  \* L828
    Rule(Plus(Cls(Spaces)),
         Tok("Text.Whitespace"), << >>),  \* L829
    Rule(Lit(","),
         Tok("Operator"), <<"#pop">>)  \* L830
  >>

Cirru_function ==
  <<
    Rule(Cat(<<Cls(WordChars \cup {"-"}), Star(NCls(Spaces \cup {"\"", "(", ")"}))>>),
         Tok("Name.Function"), <<"#pop">>),  \* L824
    Rule(Lit(")"),
         Tok("Operator"), <<"#pop">>),  \* L825
    Rule(Ahead(Lit("\n")),
         Tok("Text"), <<"#pop">>),  \* L826
    Rule(Lit("("),
         Tok("Operator"), <<"#push">>),  \* L827
    Rule(Lit("\""),
         Tok("Literal.String"), <<"#pop", "string">>),  \* L828
    Rule(Plus(Cls(Spaces)),
         Tok("Text.Whitespace"), << >>),  \* L829
    Rule(Lit(","),
         Tok("Operator"), <<"#pop">>)  \* L830
  >>

Cirru_line ==
  <<
    Rule(Cat(<<Bol, NotWordB>>),
         Tok("Text.Whitespace"), <<"function">>),  \* L833
    Rule(Lit("$"),
         Tok("Operator"), <<"function">>),  \* L834
    Rule(Lit("("),
         Tok("Operator"), <<"function">>),  \* L835
    Rule(Lit(")"),
         Tok("Operator"), << >>),  \* L836
    Rule(Ahead(Lit("\n")),
         Tok("Text"), <<"#pop">>),  \* L837
    Rule(Lit("\n"),
         Tok("Text"), <<"#pop">>),  \* L838
    Rule(Lit("\""),
         Tok("Literal.String"), <<"string">>),  \* L839
    Rule(Plus(Cls(Spaces)),
         Tok("Text.Whitespace"), << >>),  \* L840
    Rule(Plus(Cls(Digits \cup {"."})),
         Tok("Literal.Number"), << >>),  \* L841
    Rule(Cat(<<Cls(WordChars \cup {"-"}), Star(NCls(Spaces \cup {"\"", "(", ")"}))>>),
         Tok("Name.Variable"), << >>),  \* L842
    Rule(Lit("--"),
         Tok("Comment.Single"), << >>)  \* L843
  >>

Cirru_root ==
  <<
    Rule(Cat(<<Bol, Star(Cls(Spaces))>>),
         Tok("Text.Whitespace"), <<"line", "function">>),  \* L846
    Rule(Cat(<<Bol, Plus(Cls(Spaces)), Eol>>),
         Tok("Text.Whitespace"), << >>)  \* L847
  >>

CirruLexer_tokens ==
  ("string" :> Cirru_string)
  @@ ("escape" :> Cirru_escape)
  @@ ("function" :> Cirru_function)
  @@ ("line" :> Cirru_line)
  @@ ("root" :> Cirru_root)

(* SlimLexer.tokens *)
Slim_flags == Flags(TRUE, FALSE, FALSE)

Slim_root ==
  <<
    Rule(Cat(<<Star(Cls({"\t", " "})), Lit("\n")>>),
         Tok("Text"), << >>),  \* L868
    Rule(Star(Cls({"\t", " "})),
         Callback("_indentation"), << >>)  \* L869
  >>

Slim_css ==
  <<
    Rule(Cat(<<Lit("."), Plus(Cls(WordChars \cup {"-", ":"}))>>),
         Tok("Name.Class"), <<"tag">>),  \* L873
    Rule(Cat(<<Lit("#"), Plus(Cls(WordChars \cup {"-", ":"}))>>),
         Tok("Name.Function"), <<"tag">>)  \* L874
  >>

Slim_eval_or_plain ==
  <<
    Rule(Cat(<<Grp(1, Cat(<<Star(Cls({"\t", " "})), Lit("="), Opt(Lit("="))>>)), Grp(2,
         Cat(<<Star(Dot), Lit("\n")>>))>>),
         ByGroups(<<Tok("Punctuation"), Using("RubyLexer")>>), <<"root">>),  \* L878
    Rule(Cat(<<Plus(Cls({"\t", " "})), Plus(Cls(WordChars \cup {"-", ":"})), Ahead(Lit("="))>>),
         Tok("Name.Attribute"), <<"html-attributes">>),  \* L881
    Rule(Empty,
         Tok("Text"), <<"plain">>)  \* L882
  >>

Slim_content ==
  Slim_css
  \o
  <<
    Rule(Cat(<<Plus(Cls(WordChars \cup {"-", ":"})), Lit(":"), Star(Cls({"\t", " "})),
         Lit("\n")>>),
         Tok("Text"), <<"plain">>),  \* L887
    Rule(Cat(<<Grp(1, Lit("-")), Grp(2, Cat(<<Star(Dot), Lit("\n")>>))>>),
         ByGroups(<<Tok("Punctuation"), Using("RubyLexer")>>), <<"#pop">>),  \* L888
    Rule(Cat(<<Lit("|"), Star(Alt(<<Cat(<<Lit(" |\n"), Ahead(Cat(<<Star(Dot), Lit(" |")>>))>>),
         Dot>>)), Lit("\n")>>),
         StartsBlock("Text", "plain"), <<"#pop">>),  \* L891
    Rule(Cat(<<Lit("/"), Star(Alt(<<Cat(<<Lit(" |\n"), Ahead(Cat(<<Star(Dot), Lit(" |")>>))>>),
         Dot>>)), Lit("\n")>>),
         StartsBlock("Comment.Preproc", "slim-comment-block"), <<"#pop">>),  \* L892
    Rule(Plus(Cls(WordChars \cup {"-", ":"})),
         Tok("Name.Tag"), <<"tag">>)  \* L893
  >>
  \o
  Slim_eval_or_plain

Slim_tag ==
  Slim_css
  \o
  <<
    Rule(Cat(<<Rep(Cls({"<", ">"}), 1, 2), Ahead(Cls({"\t", " ", "="}))>>),
         Tok("Punctuation"), << >>),  \* L899
    Rule(Cat(<<Plus(Cls({"\t", " "})), Lit("\n")>>),
         Tok("Punctuation"), <<"#pop:2">>)  \* L900
  >>
  \o
  Slim_eval_or_plain

Slim_plain ==
  <<
    Rule(Plus(Grp(1, Alt(<<NCls({"\n", "#"}), Cat(<<Lit("#"), NCls({"\n", "{"})>>),
         Cat(<<Star(Grp(2, Lit("\\\\"))), Lit("\\#{")>>)>>))),
         Tok("Text"), << >>),  \* L905
    Rule(Cat(<<Grp(1, Lit("#{")), Grp(2, StarLazy(Dot)), Grp(3, Lit("}"))>>),
         ByGroups(<<Tok("Literal.String.Interpol"), Using("RubyLexer"),
              Tok("Literal.String.Interpol")>>), << >>),  \* L906
    Rule(Lit("\n"),
         Tok("Text"), <<"root">>)  \* L908
  >>

(* SlimLexer.tokens['html-attributes'] with 'root' in place of 'tag' as the *)
(* transition of its two delegation rules.                                 *)
Slim_html_attributes_to_root ==
  <<
    Rule(Lit("="),
         Tok("Punctuation"), << >>),  \* L912
    Rule(Cat(<<Lit("\""), Plus(NCls({"\""})), Lit("\"")>>),
         Using("RubyLexer"), <<"root">>),  \* L913
    Rule(Cat(<<Lit("'"), Plus(NCls({"'"})), Lit("'")>>),
         Using("RubyLexer"), <<"root">>),  \* L914
    Rule(Plus(Cls(WordChars)),
         Tok("Text"), <<"tag">>)  \* L915
  >>

Slim_html_attributes ==
  <<
    Rule(Lit("="),
         Tok("Punctuation"), << >>),  \* L912
    Rule(Cat(<<Lit("\""), Plus(NCls({"\""})), Lit("\"")>>),
         Using("RubyLexer"), <<"tag">>),  \* L913
    Rule(Cat(<<Lit("'"), Plus(NCls({"'"})), Lit("'")>>),
         Using("RubyLexer"), <<"tag">>),  \* L914
    Rule(Plus(Cls(WordChars)),
         Tok("Text"), <<"tag">>)  \* L915
  >>

Slim_slim_comment_block ==
  <<
    Rule(Plus(Alt(<<Cat(<<Lit(" |\n"), Ahead(Cat(<<Star(Dot), Lit(" |")>>))>>), Dot>>)),
         Tok("Comment.Preproc"), << >>),  \* L919
    Rule(Lit("\n"),
         Tok("Text"), <<"root">>)  \* L920
  >>

SlimLexer_tokens ==
  ("root" :> Slim_root)
  @@ ("css" :> Slim_css)
  @@ ("eval-or-plain" :> Slim_eval_or_plain)
  @@ ("content" :> Slim_content)
  @@ ("tag" :> Slim_tag)
  @@ ("plain" :> Slim_plain)
  @@ ("html-attributes" :> Slim_html_attributes)
  @@ ("slim-comment-block" :> Slim_slim_comment_block)

----------------------------------------------------------------------------
(* Fragments and the per-run Context                                       *)

Frag(off, kind, txt) == [off |-> off, kind |-> kind, txt |-> txt]

Last(s)  == s[Len(s)]
Front(s) == SubSeq(s, 1, Len(s) - 1)

NoStep == [kind |-> "none"]

(* A fresh Context over a text: cursor 0, stack ['root'], nothing emitted. *)
(* last_indentation, block_state and block_indentation are the attributes  *)
(* the indentation callbacks keep on the context ("" stands for None).     *)
(* last, trace and still are the run's history: the step taken last, the  *)
(* steps taken so far in order, and how many steps in a row have left the  *)
(* cursor where it was.                                                    *)
NewContext(txt) ==
  [text |-> txt, pos |-> 0, stack |-> <<"root">>, frags |-> << >>,
   status |-> "running", last |-> NoStep, trace |-> << >>, still |-> 0,
   last_indentation |-> "", block_state |-> "", block_indentation |-> ""]

IdleContext == [NewContext("") EXCEPT !.status = "idle"]

(* What an action gives back: the context as it left it, the class-level   *)
(* xquery_parse_state as it left it, and whether it raised.                *)
Return(c, aux) == [c |-> c, aux |-> aux, raised |-> FALSE]
Raise(c, aux)  == [c |-> c, aux |-> aux, raised |-> TRUE]

Yield(c, off, kind, txt) == [c EXCEPT !.frags = Append(@, Frag(off, kind, txt))]

----------------------------------------------------------------------------
(* The XQuery callbacks.  Each takes the match, the context and the value  *)
(* of XQueryLexer.xquery_parse_state (a class attribute: one list shared   *)
(* by every run and every instance).  list.pop() of an empty list raises.  *)

punctuation_root_callback(m, c, aux) ==
  LET c1 == Yield(c, m.start, "Punctuation", Group(c.text, m, 1))
  IN  Return([c1 EXCEPT !.stack = <<"root">>, !.pos = m.end], aux)

(* The callback pushing 'root' instead of resetting the stack to it.        *)
operator_root_callback_push(m, c, aux) ==
  LET c1 == Yield(c, m.start, "Operator", Group(c.text, m, 1))
  IN  Return([c1 EXCEPT !.stack = Append(@, "root"), !.pos = m.end], aux)

operator_root_callback(m, c, aux) ==
  LET c1 == Yield(c, m.start, "Operator", Group(c.text, m, 1))
  IN  Return([c1 EXCEPT !.stack = <<"root">>, !.pos = m.end], aux)

(* popstate_tag_callback reading the top of xquery_parse_state without      *)
(* taking it off.                                                          *)
popstate_tag_callback_no_pop(m, c, aux) ==
  LET c1 == Yield(c, m.start, "Name.Tag", Group(c.text, m, 1))
  IN  IF aux = << >> THEN Raise(c1, aux)
      ELSE Return([c1 EXCEPT !.stack = Append(@, Last(aux)), !.pos = m.end], aux)

popstate_tag_callback(m, c, aux) ==
  LET c1 == Yield(c, m.start, "Name.Tag", Group(c.text, m, 1))
  IN  IF aux = << >> THEN Raise(c1, aux)
      ELSE Return([c1 EXCEPT !.stack = Append(@, Last(aux)), !.pos = m.end],
                  Front(aux))

popstate_xmlcomment_callback(m, c, aux) ==
  LET c1 == Yield(c, m.start, "Literal.String.Doc", Group(c.text, m, 1))
  IN  IF aux = << >> THEN Raise(c1, aux)
      ELSE Return([c1 EXCEPT !.stack = Append(@, Last(aux)), !.pos = m.end],
                  Front(aux))

(* popstate_kindtest_callback moving the cursor to the match end whatever  *)
(* it emitted.                                                             *)
popstate_kindtest_callback_to_match_end(m, c, aux) ==
  LET c1 == Yield(c, m.start, "Punctuation", Group(c.text, m, 1))
  IN  IF aux = << >> THEN Raise(c1, aux)
      ELSE Return([c1 EXCEPT !.stack = Append(@, "operator"), !.pos = m.end],
                  Front(aux))

popstate_kindtest_callback(m, c, aux) ==
  LET c1 == Yield(c, m.start, "Punctuation", Group(c.text, m, 1))
      next_state == Last(aux)
      indicator == Match(Plus(Cls({"?", "*", "+"})), Group(c.text, m, 2),
                         Flags(FALSE, FALSE, FALSE), 0).ok
  IN  IF aux = << >> THEN Raise(c1, aux)
      ELSE IF next_state = "occurrenceindicator"
      THEN IF indicator
           THEN Return([Yield(c1, m.start, "Punctuation", Group(c.text, m, 2))
                          EXCEPT !.stack = Append(@, "operator"), !.pos = m.end],
                       Front(aux))
           ELSE Return([c1 EXCEPT !.stack = Append(@, "operator"),
                                  !.pos = MEnd(m, 1)], Front(aux))
      ELSE Return([c1 EXCEPT !.stack = Append(@, next_state),
                             !.pos = MEnd(m, 1)], Front(aux))

popstate_callback(m, c, aux) ==
  LET c1 == Yield(c, m.start, "Punctuation", Group(c.text, m, 1))
  IN  IF Len(aux) = 0
      THEN Return([c1 EXCEPT !.stack = Front(@), !.pos = m.end], aux)
      ELSE IF Len(c.stack) > 1
      THEN Return([c1 EXCEPT !.stack = Append(@, Last(aux)), !.pos = m.end],
                  Front(aux))
      ELSE Return([c1 EXCEPT !.stack = <<"root">>, !.pos = m.end], aux)

pushstate_element_content_starttag_callback(m, c, aux) ==
  LET c1 == Yield(c, m.start, "Name.Tag", Group(c.text, m, 1))
  IN  Return([c1 EXCEPT !.stack = Append(@, "start_tag"), !.pos = m.end],
             Append(aux, "element_content"))

(* Three yields of one match in the order 3, 2, 1, each at the start of    *)
(* its group.                                                              *)
YieldThreeReversed(m, c, k1, k2, k3) ==
  Yield(Yield(Yield(c, MStart(m, 3), k3, Group(c.text, m, 3)),
              MStart(m, 2), k2, Group(c.text, m, 2)),
        MStart(m, 1), k1, Group(c.text, m, 1))

(* Three yields of one match, each at match.start().                       *)
YieldThree(m, c, k1, k2, k3) ==
  Yield(Yield(Yield(c, m.start, k1, Group(c.text, m, 1)),
              m.start, k2, Group(c.text, m, 2)),
        m.start, k3, Group(c.text, m, 3))

pushstate_operator_order_callback(m, c, aux) ==
  LET c1 == YieldThree(m, c, "Keyword", "Text", "Punctuation")
  IN  Return([c1 EXCEPT !.stack = <<"root">>, !.pos = m.end],
             Append(aux, "operator"))

pushstate_operator_root_validate(m, c, aux) ==
  LET c1 == YieldThree(m, c, "Keyword", "Text", "Punctuation")
  IN  Return([c1 EXCEPT !.stack = <<"root">>, !.pos = m.end],
             Append(aux, "operator"))

pushstate_operator_root_validate_withmode(m, c, aux) ==
  LET c1 == YieldThree(m, c, "Keyword", "Text", "Keyword")
  IN  Return([c1 EXCEPT !.stack = <<"root">>, !.pos = m.end],
             Append(aux, "operator"))

pushstate_operator_processing_instruction_callback(m, c, aux) ==
  LET c1 == Yield(c, m.start, "Literal.String.Doc", Group(c.text, m, 1))
  IN  Return([c1 EXCEPT !.stack = Append(@, "processing_instruction"),
                        !.pos = m.end], Append(aux, "operator"))

pushstate_element_content_processing_instruction_callback(m, c, aux) ==
  LET c1 == Yield(c, m.start, "Literal.String.Doc", Group(c.text, m, 1))
  IN  Return([c1 EXCEPT !.stack = Append(@, "processing_instruction"),
                        !.pos = m.end], Append(aux, "element_content"))

pushstate_element_content_cdata_section_callback(m, c, aux) ==
  LET c1 == Yield(c, m.start, "Literal.String.Doc", Group(c.text, m, 1))
  IN  Return([c1 EXCEPT !.stack = Append(@, "cdata_section"), !.pos = m.end],
             Append(aux, "element_content"))

pushstate_operator_cdata_section_callback(m, c, aux) ==
  LET c1 == Yield(c, m.start, "Literal.String.Doc", Group(c.text, m, 1))
  IN  Return([c1 EXCEPT !.stack = Append(@, "cdata_section"), !.pos = m.end],
             Append(aux, "operator"))

pushstate_element_content_xmlcomment_callback(m, c, aux) ==
  LET c1 == Yield(c, m.start, "Literal.String.Doc", Group(c.text, m, 1))
  IN  Return([c1 EXCEPT !.stack = Append(@, "xml_comment"), !.pos = m.end],
             Append(aux, "element_content"))

pushstate_operator_xmlcomment_callback(m, c, aux) ==
  LET c1 == Yield(c, m.start, "Literal.String.Doc", Group(c.text, m, 1))
  IN  Return([c1 EXCEPT !.stack = Append(@, "xml_comment"), !.pos = m.end],
             Append(aux, "operator"))

pushstate_kindtest_callback(m, c, aux) ==
  LET c1 == YieldThree(m, c, "Keyword", "Text", "Punctuation")
  IN  Return([c1 EXCEPT !.stack = Append(@, "kindtest"), !.pos = m.end],
             Append(aux, "kindtest"))

pushstate_operator_kindtestforpi_callback(m, c, aux) ==
  LET c1 == YieldThree(m, c, "Keyword", "Text", "Punctuation")
  IN  Return([c1 EXCEPT !.stack = Append(@, "kindtestforpi"), !.pos = m.end],
             Append(aux, "operator"))

pushstate_operator_kindtest_callback(m, c, aux) ==
  LET c1 == YieldThree(m, c, "Keyword", "Text", "Punctuation")
  IN  Return([c1 EXCEPT !.stack = Append(@, "kindtest"), !.pos = m.end],
             Append(aux, "operator"))

pushstate_occurrenceindicator_kindtest_callback(m, c, aux) ==
  LET c1 == YieldThree(m, c, "Name.Tag", "Text", "Punctuation")
  IN  Return([c1 EXCEPT !.stack = Append(@, "kindtest"), !.pos = m.end],
             Append(aux, "occurrenceindicator"))

(* The callback recording a name that is no state of the table.            *)
pushstate_operator_starttag_callback_misnamed(m, c, aux) ==
  LET c1 == Yield(c, m.start, "Name.Tag", Group(c.text, m, 1))
  IN  Return([c1 EXCEPT !.stack = Append(@, "start_tag"), !.pos = m.end],
             Append(aux, "operators"))

pushstate_operator_starttag_callback(m, c, aux) ==
  LET c1 == Yield(c, m.start, "Name.Tag", Group(c.text, m, 1))
  IN  Return([c1 EXCEPT !.stack = Append(@, "start_tag"), !.pos = m.end],
             Append(aux, "operator"))

pushstate_operator_root_callback(m, c, aux) ==
  LET c1 == Yield(c, m.start, "Punctuation", Group(c.text, m, 1))
  IN  Return([c1 EXCEPT !.stack = <<"root">>, !.pos = m.end],
             Append(aux, "operator"))

pushstate_operator_root_construct_callback(m, c, aux) ==
  LET c1 == YieldThree(m, c, "Keyword", "Text", "Punctuation")
  IN  Return([c1 EXCEPT !.stack = <<"root">>, !.pos = m.end],
             Append(aux, "operator"))

pushstate_root_callback(m, c, aux) ==
  LET c1 == Yield(c, m.start, "Punctuation", Group(c.text, m, 1))
      cur_state == Last(c.stack)
  IN  Return([c1 EXCEPT !.stack = <<"root">>, !.pos = m.end],
             Append(aux, cur_state))

----------------------------------------------------------------------------
(* The indentation callbacks of the Slim table (pygments.lexers.css).      *)

indentation_callback(m, c, aux) ==
  LET indentation == Group(c.text, m, 0)
      c1 == [Yield(c, m.start, "Text", indentation)
               EXCEPT !.last_indentation = indentation, !.pos = m.end]
      deeper == /\ c.block_state # ""
                /\ Len(indentation) > Len(c.block_indentation)
                /\ SubSeq(indentation, 1, Len(c.block_indentation))
                     = c.block_indentation
  IN  IF deeper
      THEN Return([c1 EXCEPT !.stack = Append(@, c.block_state)], aux)
      ELSE Return([c1 EXCEPT !.block_state = "", !.block_indentation = "",
                             !.stack = Append(@, "content")], aux)

starts_block_callback(act, m, c, aux) ==
  LET c1 == Yield(c, m.start, act.kind, Group(c.text, m, 0))
  IN  Return([c1 EXCEPT !.block_indentation = c.last_indentation,
                        !.block_state = act.state, !.pos = m.end], aux)

(* A delegated run over the text s with a fresh context: the fragments it  *)
(* yields, offsets counted from the start of s.  The nested tables         *)
(* (JavaScript, HTML, Ruby) are outside this model; the nested run is      *)
(* taken to classify each input unit on its own.                           *)
NestedRun(lx, s) == [i \in 1..Len(s) |-> Frag(i - 1, "Other", SubSeq(s, i, i))]

Shifted(frs, by) == [i \in DOMAIN frs |-> [frs[i] EXCEPT !.off = @ + by]]

----------------------------------------------------------------------------
(* Rule actions                                                            *)

RunCallback(act, m, c, aux) ==
  CASE act.f = "punctuation_root_callback" -> punctuation_root_callback(m, c, aux)
    [] act.f = "operator_root_callback" -> operator_root_callback(m, c, aux)
    [] act.f = "popstate_tag_callback" -> popstate_tag_callback(m, c, aux)
    [] act.f = "popstate_xmlcomment_callback" -> popstate_xmlcomment_callback(m, c, aux)
    [] act.f = "popstate_kindtest_callback" -> popstate_kindtest_callback(m, c, aux)
    [] act.f = "popstate_callback" -> popstate_callback(m, c, aux)
    [] act.f = "pushstate_element_content_starttag_callback" ->
         pushstate_element_content_starttag_callback(m, c, aux)
    [] act.f = "pushstate_operator_order_callback" ->
         pushstate_operator_order_callback(m, c, aux)
    [] act.f = "pushstate_operator_root_validate" ->
         pushstate_operator_root_validate(m, c, aux)
    [] act.f = "pushstate_operator_root_validate_withmode" ->
         pushstate_operator_root_validate_withmode(m, c, aux)
    [] act.f = "pushstate_operator_processing_instruction_callback" ->
         pushstate_operator_processing_instruction_callback(m, c, aux)
    [] act.f = "pushstate_element_content_processing_instruction_callback" ->
         pushstate_element_content_processing_instruction_callback(m, c, aux)
    [] act.f = "pushstate_element_content_cdata_section_callback" ->
         pushstate_element_content_cdata_section_callback(m, c, aux)
    [] act.f = "pushstate_operator_cdata_section_callback" ->
         pushstate_operator_cdata_section_callback(m, c, aux)
    [] act.f = "pushstate_element_content_xmlcomment_callback" ->
         pushstate_element_content_xmlcomment_callback(m, c, aux)
    [] act.f = "pushstate_operator_xmlcomment_callback" ->
         pushstate_operator_xmlcomment_callback(m, c, aux)
    [] act.f = "pushstate_kindtest_callback" -> pushstate_kindtest_callback(m, c, aux)
    [] act.f = "pushstate_operator_kindtestforpi_callback" ->
         pushstate_operator_kindtestforpi_callback(m, c, aux)
    [] act.f = "pushstate_operator_kindtest_callback" ->
         pushstate_operator_kindtest_callback(m, c, aux)
    [] act.f = "pushstate_occurrenceindicator_kindtest_callback" ->
         pushstate_occurrenceindicator_kindtest_callback(m, c, aux)
    [] act.f = "pushstate_operator_starttag_callback" ->
         pushstate_operator_starttag_callback(m, c, aux)
    [] act.f = "pushstate_operator_root_callback" ->
         pushstate_operator_root_callback(m, c, aux)
    [] act.f = "pushstate_operator_root_construct_callback" ->
         pushstate_operator_root_construct_callback(m, c, aux)
    [] act.f = "pushstate_root_callback" -> pushstate_root_callback(m, c, aux)
    [] act.f = "_indentation" -> indentation_callback(m, c, aux)
    [] act.f = "_starts_block" -> starts_block_callback(act, m, c, aux)

(* The fragments of capture group n (0: the whole match) under a token or  *)
(* delegation action.  A group that took no part in the match emits        *)
(* nothing.                                                                *)
GroupFrags(act, m, c, n) ==
  IF MStart(m, n) < 0 THEN << >>
  ELSE IF act.k = "using"
  THEN Shifted(NestedRun(act.lexer, Group(c.text, m, n)), MStart(m, n))
  ELSE << Frag(MStart(m, n), act.kind, Group(c.text, m, n)) >>

RECURSIVE EmitGroups(_, _, _, _)
EmitGroups(acts, m, c, n) ==
  IF n > Len(acts) THEN << >>
  ELSE GroupFrags(acts[n], m, c, n) \o EmitGroups(acts, m, c, n + 1)

RunAction(act, m, c, aux) ==
  CASE act.k = "token" ->
         Return([c EXCEPT !.frags = @ \o GroupFrags(act, m, c, 0), !.pos = m.end], aux)
    [] act.k = "using" ->
         Return([c EXCEPT !.frags = @ \o GroupFrags(act, m, c, 0), !.pos = m.end], aux)
    [] act.k = "bygroups" ->
         Return([c EXCEPT !.frags = @ \o EmitGroups(act.acts, m, c, 1),
                          !.pos = m.end], aux)
    [] act.k = "callback" -> RunCallback(act, m, c, aux)

----------------------------------------------------------------------------
(* Transitions                                                             *)

PopCount(item) ==
  CASE item = "#pop" -> 1
    [] item = "#pop:2" -> 2
    [] OTHER -> 0

(* pop(n): a pop that would take the whole stack falls back to ['root'].   *)
Pop(stack, n) ==
  IF n < Len(stack) THEN SubSeq(stack, 1, Len(stack) - n) ELSE <<"root">>

RECURSIVE Transition(_, _, _)
Transition(stack, new, i) ==
  IF i > Len(new) THEN stack
  ELSE Transition(
         IF PopCount(new[i]) > 0 THEN Pop(stack, PopCount(new[i]))
         ELSE IF new[i] = "#push" THEN Append(stack, Last(stack))
         ELSE Append(stack, new[i]),
         new, i + 1)

----------------------------------------------------------------------------
(* The tables by lexer name                                                *)

Lexers == {"Sparql", "Turtle", "Duel", "XQuery", "Qml", "Cirru", "Slim"}

Tokens(lx) ==
  CASE lx = "Sparql" -> SparqlLexer_tokens
    [] lx = "Turtle" -> TurtleLexer_tokens
    [] lx = "Duel"   -> DuelLexer_tokens
    [] lx = "XQuery" -> XQueryLexer_tokens
    [] lx = "Qml"    -> QmlLexer_tokens
    [] lx = "Cirru"  -> CirruLexer_tokens
    [] lx = "Slim"   -> SlimLexer_tokens

LexerFlags(lx) ==
  CASE lx = "Sparql" -> Sparql_flags
    [] lx = "Turtle" -> Turtle_flags
    [] lx = "Duel"   -> Duel_flags
    [] lx = "XQuery" -> XQuery_flags
    [] lx = "Qml"    -> Qml_flags
    [] lx = "Cirru"  -> Cirru_flags
    [] lx = "Slim"   -> Slim_flags

----------------------------------------------------------------------------
(* The driver loop                                                         *)

VARIABLES
  lexer,               \* the table every run of this behaviour uses
  ctx,                 \* run id -> that run's Context
  xquery_parse_state   \* XQueryLexer.xquery_parse_state, class-level

vars == <<lexer, ctx, xquery_parse_state>>

RunIds == {1, 2}

StateRules(lx, c) == Tokens(lx)[Last(c.stack)]

(* The index of the first rule, in declaration order, whose pattern        *)
(* matches at the cursor; 0 when none does.                                *)
RECURSIVE FirstFrom(_, _, _, _, _)
FirstFrom(rules, i, txt, fl, p) ==
  IF i > Len(rules) THEN 0
  ELSE IF ~rules[i].isdefault /\ Match(rules[i].re, txt, fl, p).ok THEN i
  ELSE FirstFrom(rules, i + 1, txt, fl, p)

FirstRule(lx, c) == FirstFrom(StateRules(lx, c), 1, c.text, LexerFlags(lx), c.pos)

RECURSIVE DefaultFrom(_, _)
DefaultFrom(rules, i) ==
  IF i > Len(rules) THEN 0
  ELSE IF rules[i].isdefault THEN i
  ELSE DefaultFrom(rules, i + 1)

DefaultRule(lx, c) == DefaultFrom(StateRules(lx, c), 1)

(* The loop takes the top of the stack as the current state; with an       *)
(* empty stack, or a top that names no state, there is none and the run    *)
(* ends by raising.                                                        *)
HasState(lx, stack) == stack # << >> /\ Last(stack) \in DOMAIN Tokens(lx)

(* The loop reads the state on top of the stack only while the cursor is   *)
(* short of the input length; with no such state that read raises.         *)
Settle(lx, c) ==
  IF HasState(lx, c.stack) \/ c.pos >= Len(c.text) THEN c
  ELSE [c EXCEPT !.status = "raised"]

(* What a run remembers of the step it took last: the step's kind, the    *)
(* state, cursor, stack, xquery_parse_state and fragment count it started  *)
(* from, and the index of the rule applied (0 for an Error step).          *)
StepRecord(kind, c, i, aux) ==
  [kind |-> kind, state |-> Last(c.stack), rule |-> i, pos |-> c.pos,
   stack |-> c.stack, aux |-> aux, n |-> Len(c.frags)]

(* The context c1 a step from c0 leaves, with the run's history kept.      *)
Stepped(c0, c1, rec) ==
  [c1 EXCEPT !.last = rec, !.trace = Append(c0.trace, rec),
             !.still = IF c1.pos > c0.pos THEN 0 ELSE c0.still + 1]

(* Step 3: the first matching rule's action, then its transition.          *)
RuleBody(lx, c, aux) ==
  LET i    == FirstRule(lx, c)
      rule == StateRules(lx, c)[i]
      m    == Match(rule.re, c.text, LexerFlags(lx), c.pos)
      res  == RunAction(rule.act, m, c, aux)
      rec  == StepRecord("rule", c, i, aux)
      done == [res.c EXCEPT !.stack = Transition(@, rule.new, 1)]
  IN  [c   |-> IF res.raised THEN Stepped(c, [res.c EXCEPT !.status = "raised"], rec)
               ELSE Stepped(c, Settle(lx, done), rec),
       aux |-> res.aux]

(* Step 4: no rule matches and the state has a default transition.         *)
DefaultBody(lx, c, aux) ==
  LET i    == DefaultRule(lx, c)
      rule == StateRules(lx, c)[i]
  IN  [c   |-> Stepped(c, Settle(lx, [c EXCEPT !.stack = Transition(@, rule.new, 1)]),
                       StepRecord("default", c, i, aux)),
       aux |-> aux]

(* Step 5: no rule matches and there is no default: one Error unit.        *)
ErrorBody(lx, c, aux) ==
  [c   |-> Stepped(c, [Yield(c, c.pos, "Error", CharAt(c.text, c.pos))
                         EXCEPT !.pos = c.pos + 1],
                   StepRecord("error", c, 0, aux)),
   aux |-> aux]

(* The steps a run may take in a row without moving its cursor before the *)
(* model stops following it.                                               *)
MaxStill == 6

(* A whole run from context c, nothing else touching xquery_parse_state.   *)
RECURSIVE RunFrom(_, _, _)
RunFrom(lx, c, aux) ==
  IF c.status # "running" THEN c
  ELSE IF c.pos >= Len(c.text) THEN [c EXCEPT !.status = "done"]
  ELSE IF c.still > MaxStill THEN c
  ELSE LET s == IF FirstRule(lx, c) # 0 THEN RuleBody(lx, c, aux)
                ELSE IF DefaultRule(lx, c) # 0 THEN DefaultBody(lx, c, aux)
                ELSE ErrorBody(lx, c, aux)
       IN  RunFrom(lx, s.c, s.aux)

(* The run of a lexer over txt alone, from the state after import.         *)
RunAlone(lx, txt) == RunFrom(lx, NewContext(txt), << >>)

Running(r) ==
  /\ ctx[r].status = "running"
  /\ ctx[r].pos < Len(ctx[r].text)
  /\ ctx[r].still <= MaxStill

RuleStep(r) ==
  /\ Running(r)
  /\ FirstRule(lexer, ctx[r]) # 0
  /\ LET s == RuleBody(lexer, ctx[r], xquery_parse_state)
     IN  /\ ctx' = [ctx EXCEPT ![r] = s.c]
         /\ xquery_parse_state' = s.aux
  /\ UNCHANGED lexer

DefaultStep(r) ==
  /\ Running(r)
  /\ FirstRule(lexer, ctx[r]) = 0
  /\ DefaultRule(lexer, ctx[r]) # 0
  /\ ctx' = [ctx EXCEPT ![r] = DefaultBody(lexer, ctx[r], xquery_parse_state).c]
  /\ UNCHANGED <<lexer, xquery_parse_state>>

ErrorStep(r) ==
  /\ Running(r)
  /\ FirstRule(lexer, ctx[r]) = 0
  /\ DefaultRule(lexer, ctx[r]) = 0
  /\ ctx' = [ctx EXCEPT ![r] = ErrorBody(lexer, ctx[r], xquery_parse_state).c]
  /\ UNCHANGED <<lexer, xquery_parse_state>>

(* The loop ends when the cursor reaches the input length.                 *)
Finish(r) ==
  /\ ctx[r].status = "running"
  /\ ctx[r].pos >= Len(ctx[r].text)
  /\ ctx' = [ctx EXCEPT ![r].status = "done"]
  /\ UNCHANGED <<lexer, xquery_parse_state>>

Ended(r) == ctx[r].status \in {"done", "raised"}

(* The same lexer is run again over the same text once the first run has   *)
(* ended: a fresh Context; the class attribute is what it is.              *)
Rerun ==
  /\ Ended(1)
  /\ ctx[2].status = "idle"
  /\ ctx' = [ctx EXCEPT ![2] = NewContext(ctx[1].text)]
  /\ UNCHANGED <<lexer, xquery_parse_state>>

Step(r) == RuleStep(r) \/ DefaultStep(r) \/ ErrorStep(r) \/ Finish(r)

Next == \E r \in RunIds : Step(r)

NextRestart == Next \/ Rerun

----------------------------------------------------------------------------
(* Inputs                                                                  *)

MaxLen == 3

RECURSIVE Strings(_, _)
Strings(A, n) ==
  IF n = 0 THEN {""}
  ELSE LET shorter == Strings(A, n - 1)
       IN  shorter \cup {s \o ch : s \in shorter, ch \in A}

Alphabet(lx) ==
  CASE lx = "Sparql" -> {"a", "\"", "\\", "@", "\n", "1"}
    [] lx = "Turtle" -> {"a", "'", "\\", "^", ":", " "}
    [] lx = "Duel"   -> {"<", "%", ">", "a", "-"}
    [] lx = "XQuery" -> {"{", "}", "<", "/", ">", "1"}
    [] lx = "Qml"    -> {"/", " ", "a", "\n", "=", "<"}
    [] lx = "Cirru"  -> {"a", " ", "\n", "(", ")", "\""}
    [] lx = "Slim"   -> {" ", "\n", "a", "=", "#", "|"}

Scenarios(lx) ==
  CASE lx = "Sparql" -> {"abs(1)", "\"a\"@en-us a", "'''a'''^^a", "1.5e3",
                         "\"\\\na\""}
    [] lx = "Turtle" -> {"\"a\"@en a", "'a'^^<a>", "@base <a> ."}
    [] lx = "Duel"   -> {"<%= a %>b", "<%-- a --%>", "<%$ a:b %>", "a<%= b %>",
                         "<script>a</script>"}
    [] lx = "XQuery" -> {"</>}/>", "1}1{", "1 as a)", "1.5e3 1", ". as node()*",
                         "<a>{1}</a>", "<!---->}-->", "(: a :)", "ordered {",
                         "text{", "validate lax{", "1 to 2", "$1 $a"}
    [] lx = "Qml"    -> {"a = /b/g\n", "/", "a /* b */ c"}
    [] lx = "Cirru"  -> {"a (b \"c\")\n  d $ e\n", "a \n\n(b"}
    [] lx = "Slim"   -> {"a b=\"c\" d\n", "  | a\n    b\n", "a\n  = b\n", "- a\n",
                         "a #{b} c\n", "a b='c'\n"}

(* Well-nested XQuery direct constructors with literal content only:       *)
(* self-closing tags, comments, and elements around up to MaxDepth levels  *)
(* of them.                                                                *)
MaxDepth == 2

RECURSIVE Elements(_)
Elements(d) ==
  IF d = 0 THEN {"<a/>", "<!--x-->", "<a b='c'/>"}
  ELSE Elements(d - 1) \cup
       {"<a>" \o body \o "</a>" :
          body \in {"", "x"} \cup Elements(d - 1) \cup {"x" \o e : e \in Elements(d - 1)}}

(* Texts that bring a run to the per-group rules of the tables: a prefix   *)
(* that leads to the rule's state, then a text the rule matches.           *)
GroupedSamples(lx) ==
  CASE lx = "Sparql" ->
           {"\"a\"@a:-a", "b:b", "prefix aa :"}
    [] lx = "Turtle" ->
           {"\"a\"@a:-a", "\"a\"^^<a>", "\"a\"^^aa:aa", "@base <a> .",
            "@prefix aa: <a> .", "aa:aa"}
    [] lx = "Duel" ->
           {"<%:a%>", "<scripta>a</script>"}
    [] lx = "XQuery" ->
           {"1 ) as", "1 as ) as", "1 as at \"&lt;\"", "1 as at '&lt;'",
            "1 as castable as", "1 as item ( )*",
            "1 as processing-instruction (", "1 as stable order by",
            "1 as treat as", "1 as void ( )", "1 castable as", "1 catch ",
            "1 empty greatest", "1 for $", "1 instance of", "1 treat as",
            "ancestor-or-self::", "attribute a {", "catch ($",
            "declare base-uri", "declare boundary-space",
            "declare construction", "declare copy-namespaces",
            "declare default collation", "declare default element",
            "declare default order", "declare function",
            "declare namespace at \"&lt;\"", "declare namespace at '&lt;'",
            "declare option", "declare ordering", "declare variable $",
            "descendant::", "element a {", "for $", "if (",
            "import module default element", "import schema",
            "module namespace", "processing-instruction aa {", "try ",
            "typeswitch (", "xquery version"}
    [] lx = "Slim" ->
           {"#{a}", "-a\n", "=\n", "a ==a\n"}
    [] OTHER -> {}

(* XQuery texts with an enclosed expression, empty, literal or nested, in  *)
(* element content, in a quoted attribute value and after an expression.   *)
EnclosedTexts ==
  {"<a>{}</a>", "<a>{1}</a>", "<a>{1{1}}</a>", "<a>{<a>{1}</a>}</a>",
   "<a b=\"{}\"/>", "<a b=\"{1}\"/>", "<a b='{}'/>", "<a b='{1}'/>",
   "1{}", "1{1}", "1{1{1}}"}

(* XQuery texts with a processing instruction, with and without content    *)
(* after its target, or a CDATA section, at the top and in element content.*)
SectionTexts ==
  {"<?a?>", "<?a b?>", "<![CDATA[x]]>",
   "<a><?a?></a>", "<a><?a b?></a>", "<a><![CDATA[x]]></a>"}

(* XQuery texts with a kind test closed by ')': after 'instance of', with   *)
(* and without an occurrence indicator, and as an expression of its own,   *)
(* the last one after '}' tokens have emptied xquery_parse_state.          *)
KindTestTexts ==
  {"1 instance of element()", "1 instance of element()*", "1 instance of element()?1",
   "1 instance of element()a", "element ()", "element ()*", "element (a)+",
   "element ({}}})"}

(* XQuery texts with an operator or a punctuation mark after an operand,   *)
(* at the top and below other states.                                      *)
ResetTexts ==
  {"1 := 1", "1//a", "1>=1", "a::b", "1;", "a[1]",
   "<a>{element ()*1}</a>", "<a>{element (),1}</a>"}

(* XQuery texts for the callbacks of 'root' that no other text reaches, and *)
(* nested comments in 'root', in 'operator' and inside a kind test.        *)
CallbackTexts == {"processing-instruction (a)", "validate {1}", "element {1}"}

CommentTexts ==
  {"(: a :)1", "1(: a :)1", "(:(: a :):)1", "1(: a (: b :) c :)1",
   "(:(:(::):):)", "<a>{1(: a :)}</a>", "element ((: a :))", "(: a", "(: (: a :)",
   "declare namespace (:(::):)a", "import schema (: a :)", "$(: a :)a", "1 cast as (: a :)a",
   "1 instance of (: a :)a", "1 instance of a(: a :)", "1 instance of element(a(: a :))",
   "processing-instruction ((: a :))", "xquery version (: a :)",
   "declare boundary-space (: a :)", "declare ordering (: a :)"}

XQueryTexts ==
  Elements(MaxDepth) \cup EnclosedTexts \cup SectionTexts \cup KindTestTexts \cup
  ResetTexts \cup CallbackTexts \cup CommentTexts

(* Sparql and Turtle texts with a triple-quoted string whose content is    *)
(* not empty and has no backslash, and text after it.                      *)
TripleDelimiters == {"\"\"\"", "'''"}

TripleTexts ==
  {q \o content \o q \o " b" : q \in TripleDelimiters, content \in {"a", "a b", "a\nb"}}

(* Sparql and Turtle texts with quoted strings: empty, with an escape,     *)
(* with a language tag, and the texts of TripleTexts.                      *)
StringTexts ==
  TripleTexts \cup
  {"\"\"\"\"\"\" b", "\"\"\"\\a\"\"\"", "'''\\'a", "\"a\\\"b\" b", "\"a\" \"b\"",
   "'a'@en b", "\"\"\"a", "\"a\"@en-us b", "'a'@en-us-x1"}

(* QML texts that start with what the first rule of 'root' looks ahead    *)
(* for, or that push 'slashstartsregex' later on.                          *)
QmlTexts ==
  {"<!--a", "/a/g", "/a/ b", "//a\n/", "/*a*/a", " /a/", "\n/a", "a = /b/", "a /b", "a(/b/)",
   "a: /b", "/[/]/"}

(* Cirru texts with empty lines, and line breaks inside parentheses and   *)
(* strings.                                                                *)
CirruTexts ==
  {"a\n\n\nb", "a (\n\n b", "a \"b\n\nc", "a $ b\n\n", "(a\n\n)", "a \n\n\"b\"", "a\n\n(b)",
   "a \n\n$ b", "\n\na b\n", "a \"\\\n\nb"}

(* Duel texts that start with a '<%$ name : value %>' block or with a     *)
(* '<%-- ... --%>' comment block.                                          *)
DuelTexts ==
  {"<%$ a:b %>", "<%$a:b%>", "<%$a:%>a", "<%$ a : b %><a>", "<%-- a --%>", "<%----%>",
   "<%--a--%>a", "<%-- a\nb --%><a>"}

Inputs(lx) ==
  Strings(Alphabet(lx), MaxLen) \cup Scenarios(lx) \cup GroupedSamples(lx) \cup
  (IF lx = "XQuery" THEN XQueryTexts ELSE {}) \cup
  (IF lx \in {"Sparql", "Turtle"} THEN StringTexts ELSE {}) \cup
  (IF lx = "Qml" THEN QmlTexts ELSE {}) \cup
  (IF lx = "Cirru" THEN CirruTexts ELSE {}) \cup
  (IF lx = "Duel" THEN DuelTexts ELSE {})

(* The texts of the two runs whose steps interleave.                       *)
InterleavedInputs == {"{", "}", "<a>{", "1}1{", "1 as a)", "</>}/>"}

(* One run of any table over any input, from the state after import.       *)
Init ==
  /\ lexer \in Lexers
  /\ \E txt \in Inputs(lexer) : ctx = [r \in RunIds |->
                                         IF r = 1 THEN NewContext(txt) ELSE IdleContext]
  /\ xquery_parse_state = << >>

(* Two XQuery runs, both begun, their steps taken in any order.            *)
InitInterleaved ==
  /\ lexer = "XQuery"
  /\ \E t1, t2 \in InterleavedInputs : ctx = [r \in RunIds |->
                                               IF r = 1 THEN NewContext(t1)
                                               ELSE NewContext(t2)]
  /\ xquery_parse_state = << >>

Spec == Init /\ [][Next]_vars

(* A run, then a second run of the same lexer over the same text.          *)
SpecRestart == Init /\ [][NextRestart]_vars

SpecInterleaved == InitInterleaved /\ [][Next]_vars

----------------------------------------------------------------------------
(* Properties                                                              *)

Begun(r) == ctx[r].status # "idle"

RECURSIVE Concat(_, _)
Concat(frags, k) ==
  IF k > Len(frags) THEN "" ELSE frags[k].txt \o Concat(frags, k + 1)

(* The rules of state st of the table in use, and whether rule j of them   *)
(* matches at offset p of txt.                                             *)
RulesOf(st) == Tokens(lexer)[st]

MatchesAt(st, j, txt, p) ==
  /\ ~RulesOf(st)[j].isdefault
  /\ Match(RulesOf(st)[j].re, txt, LexerFlags(lexer), p).ok

(* C1. Total coverage: at every step of every run the texts of the         *)
(* fragments emitted so far, concatenated in emission order, are the input *)
(* up to the cursor, and at the end of the run they are the whole input.   *)
TotalCoverage ==
  \A r \in RunIds :
    Begun(r) =>
      /\ Concat(ctx[r].frags, 1) = SubSeq(ctx[r].text, 1, ctx[r].pos)
      /\ Ended(r) => Concat(ctx[r].frags, 1) = ctx[r].text

(* C2. Fragments are contiguous and do not overlap: the first starts at    *)
(* offset 0 and every later one starts where the one before it ends, the   *)
(* two or three fragments of one XQuery callback included.                 *)
Contiguous ==
  \A r \in RunIds :
    \A k \in 1..Len(ctx[r].frags) :
      ctx[r].frags[k].off =
        IF k = 1 THEN 0
        ELSE ctx[r].frags[k - 1].off + Len(ctx[r].frags[k - 1].txt)

(* C3. The state-name stack of a run in progress is never empty: after     *)
(* every rule action, transition and callback it holds a state name.       *)
StackNeverEmpty ==
  \A r \in RunIds : Begun(r) => ctx[r].stack # << >>

PopstateCallbacks ==
  {Callback("popstate_tag_callback"), Callback("popstate_xmlcomment_callback"),
   Callback("popstate_kindtest_callback")}

(* C4. An XQuery run does not raise in a popstate callback: whenever       *)
(* popstate_tag_callback, popstate_xmlcomment_callback or                  *)
(* popstate_kindtest_callback fires, xquery_parse_state has an entry to    *)
(* pop, and the run goes on.                                               *)
NeverRaises ==
  \A r \in RunIds :
    (/\ lexer = "XQuery"
     /\ ctx[r].last.kind = "rule"
     /\ RulesOf(ctx[r].last.state)[ctx[r].last.rule].act \in PopstateCallbacks)
    => (ctx[r].last.aux # << >> /\ ctx[r].status # "raised")

(* C5. Nothing leaks from one run into the next: at the start of every run *)
(* xquery_parse_state is empty and the state stack is ['root'].            *)
FreshAtStart ==
  \A r \in RunIds :
    (ctx[r].status = "running" /\ ctx[r].last = NoStep) =>
      /\ xquery_parse_state = << >>
      /\ ctx[r].stack = <<"root">>

(* C6. Restartability: the second of two successive runs of a lexer over   *)
(* one input yields the fragments the first run yielded.                   *)
Restartable ==
  (Ended(1) /\ Ended(2)) => ctx[2].frags = ctx[1].frags

(* C7. Run isolation: with the steps of two XQuery runs interleaved in any *)
(* order, each run yields the fragments it yields when run alone.          *)
Isolated ==
  \A r \in RunIds :
    Ended(r) => ctx[r].frags = RunAlone(lexer, ctx[r].text).frags

(* C8. Progress: every run gets to the end of its input: a run takes no   *)
(* more than MaxStill steps in a row at one cursor position, and it stops  *)
(* only with its cursor at the input length.                               *)
Progress ==
  \A r \in RunIds :
    /\ ctx[r].still <= MaxStill
    /\ Ended(r) => (ctx[r].status = "done" /\ ctx[r].pos = Len(ctx[r].text))

StartsWith(txt, p, s) ==
  p + Len(s) <= Len(txt) /\ SubSeq(txt, p + 1, p + Len(s)) = s

(* C9. First-match priority: the rule a step applies is the earliest       *)
(* declared rule of the state that matches at the cursor, and the fragment *)
(* emitted and the transition applied are that rule's, also where a later  *)
(* rule would match more: in Sparql 'root' the keyword 'a' wins over the   *)
(* function name 'abs', in XQuery 'root' the float rules win over the      *)
(* integer rule.                                                           *)
FirstMatchPriority ==
  \A r \in RunIds :
    LET c == ctx[r]
        l == c.last
    IN  l.kind = "rule" =>
          LET rule == RulesOf(l.state)[l.rule]
              m    == Match(rule.re, c.text, LexerFlags(lexer), l.pos)
          IN  /\ ~rule.isdefault
              /\ m.ok
              /\ \A j \in 1..(l.rule - 1) : ~MatchesAt(l.state, j, c.text, l.pos)
              /\ rule.act.k = "token" =>
                   /\ SubSeq(c.frags, l.n + 1, Len(c.frags)) =
                        << Frag(l.pos, rule.act.kind, SubSeq(c.text, l.pos + 1, m.end)) >>
                   /\ c.pos = m.end
                   /\ c.stack = Transition(l.stack, rule.new, 1)
              /\ (lexer = "Sparql" /\ l.state = "root" /\ StartsWith(c.text, l.pos, "abs"))
                   => Last(c.frags) = Frag(l.pos, "Keyword", "a")
              /\ (lexer = "XQuery" /\ l.state = "root" /\ StartsWith(c.text, l.pos, "1.5e3 "))
                   => /\ Last(c.frags) = Frag(l.pos, "Literal.Number.Float", "1.5e3")
                      /\ c.stack = Append(l.stack, "operator")

(* A keyword has been emitted in Sparql 'root' where a later rule matches  *)
(* a longer prefix than the keyword rule did.                              *)
LaterRuleMatchesMore ==
  \E r \in RunIds :
    LET c == ctx[r]
        l == c.last
    IN  /\ lexer = "Sparql"
        /\ l.kind = "rule"
        /\ l.state = "root"
        /\ Last(c.frags).kind = "Keyword"
        /\ \E j \in (l.rule + 1)..Len(RulesOf("root")) :
             /\ MatchesAt("root", j, c.text, l.pos)
             /\ Match(RulesOf("root")[j].re, c.text, LexerFlags(lexer), l.pos).end > c.pos

(* C10. A default transition emits nothing and consumes nothing: it is     *)
(* taken only when no rule of the state matches at the cursor, the         *)
(* fragments and the cursor stay as they are, and the stack gets the       *)
(* state's transition: two states popped in 'end-of-string', 'operator'    *)
(* pushed in 'occurrenceindicator', one state popped in                    *)
(* 'slashstartsregex'.                                                     *)
DefaultTransition ==
  [][\A r \in RunIds :
       DefaultStep(r) =>
         LET c     == ctx[r]
             state == Last(c.stack)
         IN  /\ \A j \in 1..Len(RulesOf(state)) : ~MatchesAt(state, j, c.text, c.pos)
             /\ ctx'[r].frags = c.frags
             /\ ctx'[r].pos = c.pos
             /\ ctx'[r].status = "running"
             /\ state \in {"end-of-string", "occurrenceindicator", "slashstartsregex"}
             /\ state = "end-of-string" =>
                  /\ Len(c.stack) > 2
                  /\ ctx'[r].stack = SubSeq(c.stack, 1, Len(c.stack) - 2)
             /\ state = "occurrenceindicator" =>
                  ctx'[r].stack = Append(c.stack, "operator")
             /\ state = "slashstartsregex" =>
                  /\ Len(c.stack) > 1
                  /\ ctx'[r].stack = SubSeq(c.stack, 1, Len(c.stack) - 1)
             /\ xquery_parse_state' = xquery_parse_state]_vars

(* The default of Sparql 'end-of-string' has just been taken.              *)
DefaultTaken ==
  \E r \in RunIds :
    /\ lexer = "Sparql"
    /\ ctx[r].last.kind = "default"
    /\ ctx[r].last.state = "end-of-string"
    /\ Len(ctx[r].frags) = ctx[r].last.n
    /\ ctx[r].pos = ctx[r].last.pos

(* Whether no rule of state st matches at offset p of txt.                 *)
NoRuleMatches(st, txt, p) ==
  \A j \in 1..Len(RulesOf(st)) : ~MatchesAt(st, j, txt, p)

(* C11. Unmatched input degrades to per-unit errors: an Error step is      *)
(* taken only where no rule of the state matches and the state has no      *)
(* default; it emits exactly one Error fragment, the one unit at the       *)
(* cursor, moves the cursor by one and leaves the stack alone; the run     *)
(* goes on from there in the same state.  In Sparql 'string-escape' at a   *)
(* line break and in XQuery 'varname' at a digit the step is an Error      *)
(* step.                                                                   *)
UnmatchedIsError ==
  \A r \in RunIds :
    LET c == ctx[r]
        l == c.last
    IN  /\ l.kind = "error" =>
             /\ NoRuleMatches(l.state, c.text, l.pos)
             /\ DefaultFrom(RulesOf(l.state), 1) = 0
             /\ Len(c.frags) = l.n + 1
             /\ Last(c.frags) = Frag(l.pos, "Error", CharAt(c.text, l.pos))
             /\ c.pos = l.pos + 1
             /\ c.stack = l.stack
             /\ c.status \in {"running", "done"}
        /\ \A k \in 1..(Len(c.trace) - 1) :
             c.trace[k].kind = "error" =>
               /\ c.trace[k + 1].pos = c.trace[k].pos + 1
               /\ c.trace[k + 1].stack = c.trace[k].stack
               /\ c.trace[k + 1].n = c.trace[k].n + 1
        /\ (/\ l.kind # "none"
            /\ lexer = "Sparql"
            /\ l.state = "string-escape"
            /\ CharAt(c.text, l.pos) = "\n") => l.kind = "error"
        /\ (/\ l.kind # "none"
            /\ lexer = "XQuery"
            /\ l.state = "varname"
            /\ CharAt(c.text, l.pos) = "1") => l.kind = "error"

(* A run has taken an Error step in Sparql 'string-escape' at a line break *)
(* and a further step after it.                                            *)
ErrorThenOn ==
  \E r \in RunIds :
    \E k \in 1..(Len(ctx[r].trace) - 1) :
      /\ lexer = "Sparql"
      /\ ctx[r].trace[k].kind = "error"
      /\ ctx[r].trace[k].state = "string-escape"
      /\ CharAt(ctx[r].text, ctx[r].trace[k].pos) = "\n"

(* The step a run took last, when it applied a rule: the rule, its match,  *)
(* and the action of each part of the match that emits: the groups 1..n of *)
(* a per-group action, the whole match (group 0) of any other.             *)
LastRule(r)  == RulesOf(ctx[r].last.state)[ctx[r].last.rule]
LastMatch(r) == Match(LastRule(r).re, ctx[r].text, LexerFlags(lexer), ctx[r].last.pos)
PartActs(rule)    == IF rule.act.k = "bygroups" THEN rule.act.acts ELSE << rule.act >>
PartGroup(rule, j) == IF rule.act.k = "bygroups" THEN j ELSE 0

Delegates(rule) == \E j \in 1..Len(PartActs(rule)) : PartActs(rule)[j].k = "using"

(* How many fragments part j of a match emits, and how many the parts      *)
(* before it emit.                                                         *)
PartCount(rule, m, txt, j) ==
  IF MStart(m, PartGroup(rule, j)) < 0 THEN 0
  ELSE IF PartActs(rule)[j].k = "using"
  THEN Len(NestedRun(PartActs(rule)[j].lexer, Group(txt, m, PartGroup(rule, j))))
  ELSE 1

RECURSIVE PartsBefore(_, _, _, _)
PartsBefore(rule, m, txt, j) ==
  IF j <= 1 THEN 0
  ELSE PartsBefore(rule, m, txt, j - 1) + PartCount(rule, m, txt, j - 1)

(* The fragments run r re-emitted in its last step from every nested run   *)
(* are the nested run's, each offset moved by the start of the whole outer *)
(* match (whole = TRUE) or by the start of the delegated text (FALSE).     *)
ReemittedShifted(r, whole) ==
  LET c == ctx[r]
      l == c.last
  IN  (lexer \in {"Duel", "Slim"} /\ l.kind = "rule") =>
        \A j \in 1..Len(PartActs(LastRule(r))) :
          LET rule   == LastRule(r)
              m      == LastMatch(r)
              n      == PartGroup(rule, j)
              nested == NestedRun(PartActs(rule)[j].lexer, Group(c.text, m, n))
              base   == l.n + PartsBefore(rule, m, c.text, j)
              by     == IF whole THEN m.start ELSE MStart(m, n)
          IN  (PartActs(rule)[j].k = "using" /\ MStart(m, n) >= 0) =>
                \A i \in 1..Len(nested) :
                  /\ base + i <= Len(c.frags)
                  /\ c.frags[base + i] = [nested[i] EXCEPT !.off = @ + by]

OuterStackKept ==
  \A r \in RunIds :
    LET c == ctx[r]
        l == c.last
    IN  (lexer \in {"Duel", "Slim"} /\ l.kind = "rule" /\ Delegates(LastRule(r))) =>
          /\ c.stack = Transition(l.stack, LastRule(r).new, 1)
          /\ lexer = "Duel" => c.stack = l.stack
          /\ (lexer = "Slim" /\ l.state = "plain") => c.stack = l.stack
          /\ (lexer = "Slim" /\ l.state = "html-attributes")
               => c.stack = Append(l.stack, "tag")
          /\ (lexer = "Slim" /\ l.state \in {"content", "tag"} /\ LastRule(r).new = <<"root">>)
               => c.stack = Append(l.stack, "root")
          /\ (lexer = "Slim" /\ l.state = "content" /\ LastRule(r).new = <<"#pop">>)
               => c.stack = Front(l.stack)

(* A Slim run has just delegated a quoted attribute value and pushed       *)
(* 'tag'.                                                                  *)
AttributeDelegated ==
  \E r \in RunIds :
    /\ lexer = "Slim"
    /\ ctx[r].last.kind = "rule"
    /\ ctx[r].last.state = "html-attributes"
    /\ Delegates(LastRule(r))
    /\ Last(ctx[r].stack) = "tag"

(* The callback a recorded step applied, "" for a step that applied none.  *)
StepCallback(rec) ==
  IF rec.kind = "rule" /\ RulesOf(rec.state)[rec.rule].act.k = "callback"
  THEN RulesOf(rec.state)[rec.rule].act.f
  ELSE ""

(* The index in trace of the step that opened what the step after step k   *)
(* closes, 0 when there is none: the nearest earlier step of opens that    *)
(* an earlier step of closes has not closed; depth counts the closing      *)
(* steps still to be paired off.                                           *)
RECURSIVE MatchingOpen(_, _, _, _, _)
MatchingOpen(trace, k, depth, opens, closes) ==
  IF k = 0 THEN 0
  ELSE IF StepCallback(trace[k]) \in closes
  THEN MatchingOpen(trace, k - 1, depth + 1, opens, closes)
  ELSE IF StepCallback(trace[k]) \in opens
  THEN IF depth = 0 THEN k
       ELSE MatchingOpen(trace, k - 1, depth - 1, opens, closes)
  ELSE MatchingOpen(trace, k - 1, depth, opens, closes)

TagOpeners ==
  {"pushstate_operator_starttag_callback", "pushstate_element_content_starttag_callback",
   "pushstate_operator_xmlcomment_callback", "pushstate_element_content_xmlcomment_callback"}

TagClosers == {"popstate_tag_callback", "popstate_xmlcomment_callback"}

(* The step that opened the tag or comment run r has just closed.          *)
OpenedAt(r) ==
  MatchingOpen(ctx[r].trace, Len(ctx[r].trace) - 1, 0, TagOpeners, TagClosers)

(* C14. XQuery elements and XML comments return to the recorded mode: in a *)
(* run over well-nested tags and comments with literal content, when '/>', *)
(* the '>' of an end tag or '-->' closes what a pushstate starttag or      *)
(* xmlcomment callback opened, the current state becomes the name the      *)
(* opening callback put on xquery_parse_state ('operator' when opened from *)
(* 'root', 'element_content' when opened from 'element_content') and       *)
(* xquery_parse_state is as deep as just before the opening; at the end    *)
(* everything opened is closed.                                            *)
ReturnsToRecordedMode ==
  \A r \in RunIds :
    LET c == ctx[r]
        j == OpenedAt(r)
    IN  (lexer = "XQuery" /\ c.text \in Elements(MaxDepth)) =>
          /\ StepCallback(c.last) \in TagClosers =>
               /\ j > 0
               /\ c.status # "raised"
               /\ Last(c.stack) = Last(c.trace[j + 1].aux)
               /\ c.trace[j].state \in {"root", "element_content"}
               /\ c.trace[j].state = "root" => Last(c.stack) = "operator"
               /\ c.trace[j].state = "element_content" => Last(c.stack) = "element_content"
               /\ Len(xquery_parse_state) = Len(c.trace[j].aux)
          /\ c.status = "done" =>
               /\ Last(c.stack) = "operator"
               /\ xquery_parse_state = << >>

(* The end tag of an element opened inside another element's content has   *)
(* just been closed.                                                       *)
InnerElementClosed ==
  \E r \in RunIds :
    /\ lexer = "XQuery"
    /\ ctx[r].text \in Elements(MaxDepth)
    /\ StepCallback(ctx[r].last) = "popstate_tag_callback"
    /\ ctx[r].last.state = "end_tag"
    /\ OpenedAt(r) > 0
    /\ ctx[r].trace[OpenedAt(r)].state = "element_content"

(* C15. Emission order: in every run of every table the start offsets of   *)
(* the fragments never decrease in emission order, the fragments of the    *)
(* XQuery callbacks and those re-emitted from nested runs included.        *)
EmissionOrdered ==
  \A r \in RunIds :
    \A k \in 2..Len(ctx[r].frags) :
      ctx[r].frags[k - 1].off <= ctx[r].frags[k].off

(* An XQuery callback has just yielded three fragments of one match, all   *)
(* at the start of the match.                                              *)
ThreeAtOneOffset ==
  \E r \in RunIds :
    /\ lexer = "XQuery"
    /\ StepCallback(ctx[r].last) # ""
    /\ Len(ctx[r].frags) = ctx[r].last.n + 3
    /\ ctx[r].frags[ctx[r].last.n + 1].off = ctx[r].frags[ctx[r].last.n + 3].off
    /\ ctx[r].frags[ctx[r].last.n + 3].txt # ""

(* The fragments run r emitted in its last step.                           *)
LastEmitted(r) == SubSeq(ctx[r].frags, ctx[r].last.n + 1, Len(ctx[r].frags))

GroupedLexers == {"Sparql", "Turtle", "Duel", "XQuery", "Slim"}

(* Where the spans of groups 1..j of match m end, a group that took no     *)
(* part in the match having no span.                                       *)
RECURSIVE SpansEnd(_, _)
SpansEnd(m, j) ==
  IF j = 0 THEN m.start
  ELSE IF MStart(m, j) < 0 THEN SpansEnd(m, j - 1)
  ELSE MEnd(m, j)

(* The spans of groups 1..n of match m, in group order, cover the match    *)
(* with neither gap nor overlap.                                           *)
SpansTile(m, n) ==
  /\ \A j \in 1..n : MStart(m, j) >= 0 => MStart(m, j) = SpansEnd(m, j - 1)
  /\ SpansEnd(m, n) = m.end

(* Every per-group rule of the current state of run r that matches at the  *)
(* cursor, chosen by the loop or not, has groups that tile its match.      *)
MatchingGroupsTile(r) ==
  LET c  == ctx[r]
      st == Last(c.stack)
  IN  (c.status = "running" /\ Len(c.stack) > 0) =>
        \A j \in 1..Len(RulesOf(st)) :
          (/\ RulesOf(st)[j].act.k = "bygroups"
           /\ MatchesAt(st, j, c.text, c.pos)) =>
            SpansTile(Match(RulesOf(st)[j].re, c.text, LexerFlags(lexer), c.pos),
                      Len(RulesOf(st)[j].act.acts))

(* C17. Grouped-emission completeness: after a step of a per-group rule of *)
(* the Sparql, Turtle, Duel, XQuery and Slim tables the fragments emitted  *)
(* for the groups are in group order, each token group's fragment being    *)
(* that group's span, the first starts where the match starts, each next   *)
(* one starts where the one before it ends, the last ends where the match  *)
(* ends, and their texts together are the matched text.                    *)
GroupsTileMatch ==
  \A r \in RunIds :
    /\ lexer \in GroupedLexers => MatchingGroupsTile(r)
    /\ (/\ lexer \in GroupedLexers
        /\ ctx[r].last.kind = "rule"
        /\ LastRule(r).act.k = "bygroups") =>
          LET c    == ctx[r]
              rule == LastRule(r)
              m    == LastMatch(r)
              em   == LastEmitted(r)
              acts == rule.act.acts
          IN  /\ Len(em) = PartsBefore(rule, m, c.text, Len(acts) + 1)
              /\ Len(em) > 0
              /\ em[1].off = m.start
              /\ \A k \in 2..Len(em) : em[k].off = em[k - 1].off + Len(em[k - 1].txt)
              /\ Last(em).off + Len(Last(em).txt) = m.end
              /\ Concat(em, 1) = SubSeq(c.text, m.start + 1, m.end)
              /\ \A j \in 1..Len(acts) :
                   (acts[j].k = "token" /\ MStart(m, j) >= 0) =>
                     em[PartsBefore(rule, m, c.text, j) + 1] =
                       Frag(MStart(m, j), acts[j].kind, Group(c.text, m, j))
              /\ c.pos = m.end

(* The datatype rule of Turtle 'end-of-string' has just emitted '^^' and   *)
(* the IRI after it.                                                       *)
DatatypeEmitted ==
  \E r \in RunIds :
    /\ lexer = "Turtle"
    /\ ctx[r].last.kind = "rule"
    /\ ctx[r].last.state = "end-of-string"
    /\ LastRule(r).act.k = "bygroups"
    /\ Len(LastEmitted(r)) = 2
    /\ LastEmitted(r)[1].txt = "^^"
    /\ SubSeq(LastEmitted(r)[2].txt, 1, 1) = "<"

(* The transition items that name no state.                                *)
StackOps == {"#pop", "#pop:2", "#push"}

(* Every transition target of the table of lexer lx names a state of that  *)
(* table.                                                                  *)
TargetsDefined(lx) ==
  \A st \in DOMAIN Tokens(lx) :
    \A j \in 1..Len(Tokens(lx)[st]) :
      \A i \in 1..Len(Tokens(lx)[st][j].new) :
        Tokens(lx)[st][j].new[i] \in StackOps \cup DOMAIN Tokens(lx)

PopstateCallbackNames ==
  {"popstate_tag_callback", "popstate_xmlcomment_callback",
   "popstate_kindtest_callback", "popstate_callback"}

(* C16. Every state name on a state stack is defined: every transition     *)
(* target of the table names a state of the table, every name on a run's   *)
(* state stack and every name on xquery_parse_state is a key of the table, *)
(* and the name a popstate callback has just put on the state stack is a   *)
(* key of the table.                                                       *)
StatesDefined ==
  /\ TargetsDefined(lexer)
  /\ \A k \in 1..Len(xquery_parse_state) :
       xquery_parse_state[k] \in DOMAIN Tokens("XQuery")
  /\ \A r \in RunIds :
       /\ \A k \in 1..Len(ctx[r].stack) : ctx[r].stack[k] \in DOMAIN Tokens(lexer)
       /\ (/\ lexer = "XQuery"
           /\ StepCallback(ctx[r].last) \in PopstateCallbackNames
           /\ Len(ctx[r].stack) > Len(ctx[r].last.stack)) =>
            /\ Last(ctx[r].stack) \in DOMAIN XQueryLexer_tokens
            /\ Last(ctx[r].stack) \in {Last(ctx[r].last.aux), "operator"}

(* popstate_callback has just moved the state a '{' saved, one that no     *)
(* callback names literally, from xquery_parse_state to the state stack.   *)
SavedStateMoved ==
  \E r \in RunIds :
    /\ lexer = "XQuery"
    /\ StepCallback(ctx[r].last) = "popstate_callback"
    /\ Len(ctx[r].last.aux) > 0
    /\ Len(ctx[r].stack) > Len(ctx[r].last.stack)
    /\ Last(ctx[r].stack) = Last(ctx[r].last.aux)
    /\ Last(ctx[r].stack) \notin {"operator", "element_content", "kindtest", "root"}

(* The offset of the '{' that the '}' right after offset p of txt closes,  *)
(* found by counting braces leftwards from p; -1 when there is none.       *)
RECURSIVE OpenBrace(_, _, _)
OpenBrace(txt, p, depth) ==
  IF p < 0 THEN -1
  ELSE IF CharAt(txt, p) = "}" THEN OpenBrace(txt, p - 1, depth + 1)
  ELSE IF CharAt(txt, p) = "{"
  THEN IF depth = 0 THEN p ELSE OpenBrace(txt, p - 1, depth - 1)
  ELSE OpenBrace(txt, p - 1, depth)

(* The last rule step of run r taken at offset p; 0 when there is none.    *)
RuleStepsAt(r, p) ==
  {k \in 1..Len(ctx[r].trace) : ctx[r].trace[k].pos = p /\ ctx[r].trace[k].kind = "rule"}

RuleStepAt(r, p) ==
  IF RuleStepsAt(r, p) = {} THEN 0
  ELSE CHOOSE k \in RuleStepsAt(r, p) : \A j \in RuleStepsAt(r, p) : j <= k

(* Run r has just matched a '}' with popstate_callback.                    *)
ClosedBrace(r) ==
  /\ lexer = "XQuery"
  /\ ctx[r].last.kind = "rule"
  /\ StepCallback(ctx[r].last) = "popstate_callback"
  /\ CharAt(ctx[r].text, ctx[r].last.pos) = "}"

(* The step of run r that matched the '{' which the '}' just matched       *)
(* closes; 0 when there is none.                                           *)
BraceOpenedAt(r) ==
  RuleStepAt(r, OpenBrace(ctx[r].text, ctx[r].last.pos - 1, 0))

SavingStates == {"element_content", "quot_attribute_content", "operator"}

(* Run r has just closed an enclosed expression of EnclosedTexts whose '{' *)
(* was matched by pushstate_root_callback in a state of SavingStates; the  *)
(* expression is empty or not as asked.                                    *)
EnclosedClosed(r, empty) ==
  /\ ClosedBrace(r)
  /\ ctx[r].text \in EnclosedTexts
  /\ BraceOpenedAt(r) > 0
  /\ StepCallback(ctx[r].trace[BraceOpenedAt(r)]) = "pushstate_root_callback"
  /\ ctx[r].trace[BraceOpenedAt(r)].state \in SavingStates
  /\ empty = (ctx[r].last.pos = ctx[r].trace[BraceOpenedAt(r)].pos + 1)

(* After the '}' just matched, run r is in the state its '{' was matched   *)
(* in and xquery_parse_state is as deep as before that '{'.                *)
BackInSavedState(r) ==
  /\ ctx[r].status # "raised"
  /\ ctx[r].stack # << >>
  /\ Last(ctx[r].stack) = ctx[r].trace[BraceOpenedAt(r)].state
  /\ Len(xquery_parse_state) = Len(ctx[r].trace[BraceOpenedAt(r)].aux)

(* C18. Enclosed expressions return to the saved state: when '{' was       *)
(* matched by pushstate_root_callback in 'element_content',                *)
(* 'quot_attribute_content' or 'operator', the matching '}' after a        *)
(* brace-balanced expression, the empty one included, makes that state     *)
(* current again and leaves xquery_parse_state as deep as before the '{'.  *)
EnclosedReturnsToSaved ==
  \A r \in RunIds :
    (EnclosedClosed(r, TRUE) \/ EnclosedClosed(r, FALSE)) => BackInSavedState(r)

(* C18 for expressions that are not empty.                                 *)
NonEmptyEnclosedReturns ==
  \A r \in RunIds : EnclosedClosed(r, FALSE) => BackInSavedState(r)

(* C18 for empty expressions: the '}' is matched in 'root' with a state    *)
(* stack of one entry, which popstate_callback resets to 'root' without    *)
(* taking the saved state off xquery_parse_state.                          *)
EmptyEnclosedStaysInRoot ==
  \A r \in RunIds :
    EnclosedClosed(r, TRUE) =>
      /\ ctx[r].stack = <<"root">>
      /\ xquery_parse_state = ctx[r].last.aux
      /\ Last(xquery_parse_state) = ctx[r].trace[BraceOpenedAt(r)].state

EmptyEnclosedClosed == \E r \in RunIds : EnclosedClosed(r, TRUE)

NonEmptyEnclosedClosed ==
  \E r \in RunIds :
    /\ EnclosedClosed(r, FALSE)
    /\ ctx[r].trace[BraceOpenedAt(r)].state = "quot_attribute_content"

(* Run r has just matched the '}' of an enclosed expression of             *)
(* EnclosedTexts, not empty, whose '{' was matched in                      *)
(* 'apos_attribute_content'.                                               *)
AposEnclosedClosed(r) ==
  /\ ClosedBrace(r)
  /\ ctx[r].text \in EnclosedTexts
  /\ BraceOpenedAt(r) > 0
  /\ ctx[r].trace[BraceOpenedAt(r)].state = "apos_attribute_content"
  /\ ctx[r].last.pos > ctx[r].trace[BraceOpenedAt(r)].pos + 1

(* C19. Enclosed expressions in apostrophe-quoted attributes behave like   *)
(* those in double-quoted ones: after '{' in 'apos_attribute_content' and  *)
(* a brace-balanced expression that is not empty, the matching '}' makes   *)
(* 'apos_attribute_content' current again and leaves on                    *)
(* xquery_parse_state the entry pushed when the enclosing tag was opened.  *)
AposEnclosedReturns ==
  \A r \in RunIds :
    AposEnclosedClosed(r) =>
      /\ ctx[r].status # "raised"
      /\ ctx[r].stack # << >>
      /\ Last(ctx[r].stack) = "apos_attribute_content"
      /\ xquery_parse_state = ctx[r].trace[BraceOpenedAt(r)].aux

(* What the '}' does instead: the '{' was matched by a plain rule that     *)
(* pushed 'root' and saved nothing, so popstate_callback takes the         *)
(* enclosing tag's entry off xquery_parse_state and makes it current.      *)
AposEnclosedTakesTagEntry ==
  \A r \in RunIds :
    AposEnclosedClosed(r) =>
      /\ StepCallback(ctx[r].trace[BraceOpenedAt(r)]) = ""
      /\ ctx[r].trace[BraceOpenedAt(r) + 1].aux = ctx[r].trace[BraceOpenedAt(r)].aux
      /\ Last(ctx[r].stack) = Last(ctx[r].last.aux)
      /\ Last(ctx[r].stack) = "operator"
      /\ xquery_parse_state = Front(ctx[r].last.aux)

AposExpressionClosed == \E r \in RunIds : AposEnclosedClosed(r)

SectionOpeners ==
  {"pushstate_operator_processing_instruction_callback",
   "pushstate_element_content_processing_instruction_callback",
   "pushstate_operator_cdata_section_callback",
   "pushstate_element_content_cdata_section_callback"}

(* The state the opening callback f of a processing instruction or CDATA   *)
(* section records on xquery_parse_state.                                  *)
RecordedBy(f) ==
  IF f \in {"pushstate_operator_processing_instruction_callback",
            "pushstate_operator_cdata_section_callback"}
  THEN "operator" ELSE "element_content"

(* The last step among the first k of trace that opened a processing       *)
(* instruction or a CDATA section; 0 when there is none.                   *)
RECURSIVE SectionOpen(_, _)
SectionOpen(trace, k) ==
  IF k = 0 THEN 0
  ELSE IF StepCallback(trace[k]) \in SectionOpeners THEN k
  ELSE SectionOpen(trace, k - 1)

(* Run r has just matched the '?>' or ']]>' that closes the processing     *)
(* instruction or CDATA section opened in 'root' or 'element_content'.     *)
SectionClosed(r) ==
  /\ lexer = "XQuery"
  /\ ctx[r].text \in SectionTexts
  /\ ctx[r].last.kind = "rule"
  /\ ctx[r].last.state \in
       {"processing_instruction", "processing_instruction_content", "cdata_section"}
  /\ SubSeq(ctx[r].text, ctx[r].last.pos + 1, ctx[r].pos) \in {"?>", "]]>"}
  /\ SectionOpen(ctx[r].trace, Len(ctx[r].trace) - 1) > 0
  /\ ctx[r].trace[SectionOpen(ctx[r].trace, Len(ctx[r].trace) - 1)].state
       \in {"root", "element_content"}

SectionOpenedAt(r) == SectionOpen(ctx[r].trace, Len(ctx[r].trace) - 1)

(* C20. Processing instructions and CDATA sections return to the recorded  *)
(* mode: after '<?' or '<![CDATA[' matched in 'root' or 'element_content'  *)
(* and the closing '?>' or ']]>', the current state is the name the        *)
(* opening callback recorded and xquery_parse_state is as deep as before   *)
(* the opening, for a processing instruction with and without content      *)
(* after its target.                                                       *)
SectionReturnsToRecorded ==
  \A r \in RunIds :
    SectionClosed(r) =>
      /\ ctx[r].status # "raised"
      /\ ctx[r].stack # << >>
      /\ Last(ctx[r].stack) = RecordedBy(StepCallback(ctx[r].trace[SectionOpenedAt(r)]))
      /\ Last(ctx[r].trace[SectionOpenedAt(r) + 1].aux)
           = RecordedBy(StepCallback(ctx[r].trace[SectionOpenedAt(r)]))
      /\ Len(xquery_parse_state) = Len(ctx[r].trace[SectionOpenedAt(r)].aux)

(* What the closing rules do instead: '#pop' takes one state off the state *)
(* stack and xquery_parse_state keeps the recorded name.                   *)
SectionClosePopsOneState ==
  \A r \in RunIds :
    SectionClosed(r) =>
      /\ ctx[r].stack = Front(ctx[r].last.stack)
      /\ xquery_parse_state = ctx[r].last.aux
      /\ Len(xquery_parse_state) = Len(ctx[r].trace[SectionOpenedAt(r)].aux) + 1

(* The '?>' of a processing instruction with content after its target has  *)
(* just been matched.                                                      *)
InstructionWithContentClosed ==
  \E r \in RunIds :
    /\ SectionClosed(r)
    /\ ctx[r].last.state = "processing_instruction_content"

(* Run r has just matched ')' in 'kindtest' with                           *)
(* popstate_kindtest_callback.                                             *)
KindTestClosing(r) ==
  /\ lexer = "XQuery"
  /\ ctx[r].last.kind = "rule"
  /\ ctx[r].last.state = "kindtest"
  /\ StepCallback(ctx[r].last) = "popstate_kindtest_callback"

Indicators == {"?", "*", "+"}

(* What the claim says of the step run r has just taken.                   *)
KindTestClosedAsSaid(r) ==
  LET c  == ctx[r]
      l  == c.last
      em == LastEmitted(r)
  IN  /\ c.status # "raised"
      /\ l.aux # << >>
      /\ xquery_parse_state = Front(l.aux)
      /\ Len(em) >= 1
      /\ em[1] = Frag(l.pos, "Punctuation", ")")
      /\ IF Last(l.aux) = "occurrenceindicator"
         THEN /\ c.stack = Append(l.stack, "operator")
              /\ IF l.pos + 1 < Len(c.text) /\ CharAt(c.text, l.pos + 1) \in Indicators
                 THEN /\ Len(em) = 2
                      /\ em[2].kind = "Punctuation"
                      /\ em[2].txt = CharAt(c.text, l.pos + 1)
                      /\ c.pos = l.pos + 2
                 ELSE /\ Len(em) = 1
                      /\ c.pos = l.pos + 1
         ELSE /\ c.stack = Append(l.stack, Last(l.aux))
              /\ Len(em) = 1
              /\ c.pos = l.pos + 1

(* C21. Closing a kind test: when ')' with an optional occurrence          *)
(* indicator is matched in 'kindtest', the ')' is emitted as Punctuation   *)
(* and one entry is popped from xquery_parse_state; if the entry is        *)
(* 'occurrenceindicator' the current state becomes 'operator' and an       *)
(* indicator, when present, is emitted as Punctuation and consumed; for    *)
(* any other entry the entry becomes the current state and the cursor is   *)
(* just after the ')'.                                                     *)
KindTestClosed ==
  \A r \in RunIds : KindTestClosing(r) => KindTestClosedAsSaid(r)

(* C21 for the steps that find an entry on xquery_parse_state.             *)
KindTestClosedWithEntry ==
  \A r \in RunIds :
    (KindTestClosing(r) /\ ctx[r].last.aux # << >>) => KindTestClosedAsSaid(r)

(* A ')' matched in 'kindtest' with xquery_parse_state empty.              *)
KindTestClosedOnEmpty ==
  \E r \in RunIds : KindTestClosing(r) /\ ctx[r].last.aux = << >>

(* A ')' matched in 'kindtest' with another entry than                     *)
(* 'occurrenceindicator' on top and an indicator after the ')'.            *)
IndicatorLeftAfterKindTest ==
  \E r \in RunIds :
    /\ KindTestClosing(r)
    /\ ctx[r].last.aux # << >>
    /\ Last(ctx[r].last.aux) = "operator"
    /\ CharAt(ctx[r].text, ctx[r].pos) = "*"

RootResetCallbacks == {"punctuation_root_callback", "operator_root_callback"}

(* Run r has just applied a root-reset callback in 'operator'.             *)
RootResetFired(r) ==
  /\ lexer = "XQuery"
  /\ ctx[r].last.kind = "rule"
  /\ ctx[r].last.state = "operator"
  /\ StepCallback(ctx[r].last) \in RootResetCallbacks

(* The texts the two rules of 'operator' with a root-reset callback match. *)
ResetMarks ==
  {"::", ";", "[", "//", "/", ",",
   ">=", ">>", ">", "<=", "<<", "<", "-", "*", "!=", "+", "||", "|", ":=", "="}

(* C22. Root-reset callbacks: after punctuation_root_callback or           *)
(* operator_root_callback fires in 'operator', the state stack is exactly  *)
(* <<"root">> whatever it was before, xquery_parse_state is unchanged, one *)
(* fragment was emitted, holding the matched mark, and the cursor is at    *)
(* the match end.                                                          *)
RootReset ==
  \A r \in RunIds :
    RootResetFired(r) =>
      /\ ctx[r].status # "raised"
      /\ ctx[r].stack = <<"root">>
      /\ xquery_parse_state = ctx[r].last.aux
      /\ Len(LastEmitted(r)) = 1
      /\ LastEmitted(r)[1] =
           Frag(ctx[r].last.pos,
                IF StepCallback(ctx[r].last) = "operator_root_callback"
                THEN "Operator" ELSE "Punctuation",
                SubSeq(ctx[r].text, ctx[r].last.pos + 1, LastMatch(r).end))
      /\ LastEmitted(r)[1].txt \in ResetMarks
      /\ ctx[r].pos = LastMatch(r).end
      /\ ctx[r].pos > ctx[r].last.pos

(* A root-reset callback has just fired on a state stack of three entries  *)
(* with xquery_parse_state not empty.                                      *)
DeepStackReset ==
  \E r \in RunIds :
    /\ RootResetFired(r)
    /\ Len(ctx[r].last.stack) >= 3
    /\ ctx[r].last.aux # << >>
    /\ ctx[r].stack = <<"root">>

(* C23. Every XQuery callback of the table advances the cursor             *)
(* consistently: after it returns, the cursor is strictly after the cursor *)
(* before the match and equals the match start plus the total length of    *)
(* the texts of the fragments it emitted.                                  *)
CallbackCursor ==
  \A r \in RunIds :
    (/\ lexer = "XQuery"
     /\ StepCallback(ctx[r].last) # ""
     /\ ctx[r].status # "raised") =>
      /\ ctx[r].pos > ctx[r].last.pos
      /\ ctx[r].pos = LastMatch(r).start + Len(Concat(LastEmitted(r), 1))

(* A callback has just returned with the cursor short of the match end:   *)
(* popstate_kindtest_callback left the indicator it matched unconsumed.    *)
CursorShortOfMatchEnd ==
  \E r \in RunIds :
    /\ lexer = "XQuery"
    /\ StepCallback(ctx[r].last) # ""
    /\ ctx[r].status # "raised"
    /\ ctx[r].pos < LastMatch(r).end
    /\ ctx[r].pos > ctx[r].last.pos

StringStates ==
  {"triple-double-quoted-string", "single-double-quoted-string",
   "triple-single-quoted-string", "single-single-quoted-string"}

(* The shapes of a Sparql or Turtle state stack.                           *)
StringStackShape(stack) ==
  \/ stack = <<"root">>
  \/ /\ Len(stack) \in {2, 3}
     /\ stack[1] = "root"
     /\ stack[2] \in StringStates
     /\ Len(stack) = 3 => stack[3] \in {"string-escape", "end-of-string"}

(* C24. Sparql and Turtle stack shape: in every reachable state the state  *)
(* stack is <<"root">>, <<"root", S>>, <<"root", S, "string-escape">> or   *)
(* <<"root", S, "end-of-string">> with S a quoted-string state; every      *)
(* '#pop:2' of 'end-of-string', rule or default, is applied to a stack of  *)
(* depth 3 and leaves <<"root">>; the '#pop' of 'string-escape' returns to *)
(* the string state it was entered from.                                   *)
StringStacks ==
  \A r \in RunIds :
    lexer \in {"Sparql", "Turtle"} =>
      LET c == ctx[r]
          l == c.last
      IN  /\ StringStackShape(c.stack)
          /\ c.status # "raised"
          /\ (l.kind \in {"rule", "default"} /\ l.state = "end-of-string") =>
               /\ Len(l.stack) = 3
               /\ \A i \in 1..Len(RulesOf("end-of-string")) :
                    RulesOf("end-of-string")[i].new = <<"#pop:2">>
               /\ c.stack = <<"root">>
          /\ (l.kind = "rule" /\ l.state = "string-escape") =>
               /\ c.stack = <<"root", l.stack[2]>>
               /\ \E k \in 1..Len(c.trace) - 1 :
                    /\ c.trace[k].state = l.stack[2]
                    /\ c.trace[k + 1].state = "string-escape"
                    /\ c.trace[k + 1].stack = Append(c.trace[k].stack, "string-escape")
                    /\ \A j \in (k + 1)..Len(c.trace) : c.trace[j].state = "string-escape"
          /\ (l.kind \in {"rule", "default", "error"} /\ Len(c.stack) = 3) =>
               \/ l.stack = c.stack
               \/ l.stack = Front(c.stack)

(* The character after a backslash has just been matched in                *)
(* 'string-escape' and the run is back in the triple-quoted state the      *)
(* backslash was matched in.                                               *)
EscapeReturned ==
  \E r \in RunIds :
    /\ lexer \in {"Sparql", "Turtle"}
    /\ ctx[r].last.kind = "rule"
    /\ ctx[r].last.state = "string-escape"
    /\ ctx[r].stack = <<"root", "triple-double-quoted-string">>

(* The default '#pop:2' of 'end-of-string' has just been applied.          *)
EndOfStringLeft ==
  \E r \in RunIds :
    /\ lexer \in {"Sparql", "Turtle"}
    /\ ctx[r].last.kind = "default"
    /\ ctx[r].last.state = "end-of-string"
    /\ ctx[r].stack = <<"root">>

TripleStates == {"triple-double-quoted-string", "triple-single-quoted-string"}

(* The offset of the closing delimiter of a text of TripleTexts: the first *)
(* offset from p on at which the text goes on with its opening delimiter.  *)
RECURSIVE ClosingAt(_, _)
ClosingAt(txt, p) ==
  IF p + 3 > Len(txt) THEN -1
  ELSE IF SubSeq(txt, p + 1, p + 3) = SubSeq(txt, 1, 3) THEN p
  ELSE ClosingAt(txt, p + 1)

(* C25. Triple-quoted strings close: in Sparql and Turtle, for a           *)
(* triple-quoted string whose content is not empty and has no backslash,   *)
(* the closing delimiter is matched by the closing rule of the string      *)
(* state, the stack goes through 'end-of-string' back to <<"root">>, and   *)
(* the text after the delimiter is tokenized by the rules of 'root', not   *)
(* as a string.                                                            *)
TripleQuotedCloses ==
  \A r \in RunIds :
    (/\ lexer \in {"Sparql", "Turtle"}
     /\ ctx[r].text \in TripleTexts
     /\ Ended(r)) =>
      /\ \E k \in 1..Len(ctx[r].trace) - 1 :
           /\ ctx[r].trace[k].kind = "rule"
           /\ ctx[r].trace[k].state \in TripleStates
           /\ ctx[r].trace[k].rule = 1
           /\ ctx[r].trace[k].pos = ClosingAt(ctx[r].text, 3)
           /\ ctx[r].trace[k + 1].state = "end-of-string"
      /\ ctx[r].stack = <<"root">>
      /\ ctx[r].last.state = "root"
      /\ Last(ctx[r].frags).kind # "Literal.String"

(* What the run does instead: the content rule [^\\]+ of the string state  *)
(* matches everything up to the end of the text, the closing delimiter and *)
(* the text after it included, in one String fragment, and the run ends in *)
(* the string state.                                                       *)
TripleQuotedRunsToEnd ==
  \A r \in RunIds :
    (/\ lexer \in {"Sparql", "Turtle"}
     /\ ctx[r].text \in TripleTexts
     /\ Ended(r)) =>
      /\ Len(ctx[r].trace) = 2
      /\ ctx[r].last.state \in TripleStates
      /\ ctx[r].last.rule = 2
      /\ ctx[r].last.pos = 3
      /\ ctx[r].pos = Len(ctx[r].text)
      /\ ctx[r].stack = <<"root", ctx[r].last.state>>
      /\ Last(ctx[r].frags) =
           Frag(3, "Literal.String", SubSeq(ctx[r].text, 4, Len(ctx[r].text)))

(* A run over a text of TripleTexts has ended.                             *)
TripleQuotedRunEnded ==
  \E r \in RunIds :
    /\ lexer \in {"Sparql", "Turtle"}
    /\ ctx[r].text \in TripleTexts
    /\ Ended(r)
    /\ ctx[r].last.state \in TripleStates

QmlStacks == {<<"root">>, <<"root", "slashstartsregex">>, <<"root", "badregex">>}

(* Run r has just applied the rule of 'slashstartsregex' whose transition  *)
(* is ('#pop', 'badregex').                                                *)
BadRegexTaken(r) ==
  /\ lexer = "Qml"
  /\ ctx[r].last.kind = "rule"
  /\ LastRule(r).new = <<"#pop", "badregex">>

(* C26. QML stack shape: in every state of every QML run the state stack   *)
(* is <<"root">>, <<"root", "slashstartsregex">> or <<"root", "badregex">>; *)
(* 'root' is never popped, and the transition ('#pop', 'badregex')         *)
(* replaces 'slashstartsregex' by 'badregex' at the same depth.            *)
QmlStackShape ==
  \A r \in RunIds :
    (lexer = "Qml" /\ ctx[r].status # "idle") =>
      /\ ctx[r].stack \in QmlStacks
      /\ ctx[r].status # "raised"
      /\ ctx[r].last.kind # "none" => ctx[r].last.stack \in QmlStacks
      /\ BadRegexTaken(r) =>
           /\ ctx[r].last.stack = <<"root", "slashstartsregex">>
           /\ ctx[r].stack = <<"root", "badregex">>
           /\ Len(ctx[r].stack) = Len(ctx[r].last.stack)

(* A '/' that starts no regex literal has just moved a QML run from        *)
(* 'slashstartsregex' to 'badregex'.                                       *)
BadRegexEntered ==
  \E r \in RunIds :
    /\ BadRegexTaken(r)
    /\ ctx[r].last.stack = <<"root", "slashstartsregex">>
    /\ ctx[r].stack = <<"root", "badregex">>

(* Step k of run r is the zero-width first rule of QML 'root'.             *)
QmlLineStartStep(r, k) ==
  /\ ctx[r].trace[k].kind = "rule"
  /\ ctx[r].trace[k].state = "root"
  /\ ctx[r].trace[k].rule = 1

(* C27. QML zero-width rules cannot cycle: the zero-width first rule of    *)
(* 'root' is never followed by the default '#pop' of 'slashstartsregex'    *)
(* at the same cursor, and at most two consecutive steps of a run leave    *)
(* the cursor unchanged.                                                   *)
QmlZeroWidth ==
  \A r \in RunIds :
    lexer = "Qml" =>
      /\ ctx[r].still <= 2
      /\ \A k \in 1..Len(ctx[r].trace) - 1 :
           QmlLineStartStep(r, k) =>
             /\ ctx[r].trace[k + 1].state = "slashstartsregex"
             /\ ~(/\ ctx[r].trace[k + 1].kind = "default"
                  /\ ctx[r].trace[k + 1].pos = ctx[r].trace[k].pos)

(* Two consecutive steps of a QML run have left the cursor unchanged: the  *)
(* first rule of 'root' and then the rule (?=/) of 'slashstartsregex'.     *)
QmlTwoStill ==
  \E r \in RunIds :
    /\ BadRegexTaken(r)
    /\ ctx[r].still = 2
    /\ Len(ctx[r].trace) = 2
    /\ QmlLineStartStep(r, 1)

(* The default '#pop' of 'slashstartsregex' has just been applied, after   *)
(* a rule of 'root' that consumed text.                                    *)
QmlDefaultPopped ==
  \E r \in RunIds :
    /\ lexer = "Qml"
    /\ ctx[r].last.kind = "default"
    /\ ctx[r].last.state = "slashstartsregex"
    /\ ctx[r].still = 1

(* Run r has been in its present configuration (cursor, state stack)       *)
(* before an earlier step.                                                 *)
ConfigurationSeen(r) ==
  \E k \in 1..Len(ctx[r].trace) :
    /\ ctx[r].trace[k].pos = ctx[r].pos
    /\ ctx[r].trace[k].stack = ctx[r].stack

(* C28. Cirru zero-width rules cannot cycle: the zero-width matches of     *)
(* 'root', 'line' and 'function' never return a run to a configuration     *)
(* (cursor, state stack) it has already been in; 'line' is never current   *)
(* at a line start whose next character is a line break.                   *)
CirruNoReturn ==
  \A r \in RunIds :
    (lexer = "Cirru" /\ ctx[r].status # "idle") =>
      /\ ~ConfigurationSeen(r)
      /\ ctx[r].still <= MaxStill
      /\ (/\ ctx[r].pos < Len(ctx[r].text)
          /\ Len(ctx[r].stack) > 0
          /\ Last(ctx[r].stack) = "line"
          /\ AtLineStart(ctx[r].text, Cirru_flags, ctx[r].pos)) =>
            CharAt(ctx[r].text, ctx[r].pos) # "\n"

(* The rule ^\B of 'line' has just pushed 'function' without consuming     *)
(* text, at a line start.                                                  *)
CirruLineStartPushed ==
  \E r \in RunIds :
    /\ lexer = "Cirru"
    /\ ctx[r].last.kind = "rule"
    /\ ctx[r].last.state = "line"
    /\ ctx[r].last.rule = 1
    /\ ctx[r].pos = ctx[r].last.pos
    /\ ctx[r].pos > 0
    /\ ctx[r].stack = Append(ctx[r].last.stack, "function")

(* The lookahead for a line break has popped 'function' and then 'line'    *)
(* without consuming text.                                                 *)
CirruLookaheadsPopped ==
  \E r \in RunIds :
    /\ lexer = "Cirru"
    /\ Len(ctx[r].trace) >= 2
    /\ ctx[r].last.kind = "rule"
    /\ ctx[r].trace[Len(ctx[r].trace) - 1].kind = "rule"
    /\ ctx[r].last.state = "line"
    /\ ctx[r].last.rule = 5
    /\ ctx[r].trace[Len(ctx[r].trace) - 1].state = "function"
    /\ ctx[r].trace[Len(ctx[r].trace) - 1].rule = 3
    /\ ctx[r].still >= 2

(* 'root' has pushed 'line' and 'function' on an empty match.              *)
CirruRootPushedOnEmpty ==
  \E r \in RunIds :
    /\ lexer = "Cirru"
    /\ ctx[r].last.kind = "rule"
    /\ ctx[r].last.state = "root"
    /\ ctx[r].last.rule = 1
    /\ ctx[r].pos = ctx[r].last.pos
    /\ ctx[r].stack = <<"root", "line", "function">>

DuelValueBlocks   == {t \in DuelTexts : SubSeq(t, 1, 3) = "<%$"}
DuelCommentBlocks == {t \in DuelTexts : SubSeq(t, 1, 4) = "<%--"}

(* Run r of Duel has just applied a rule at the start of its text.         *)
DuelFirstStep(r) ==
  /\ lexer = "Duel"
  /\ ctx[r].last.kind = "rule"
  /\ ctx[r].last.pos = 0

(* C29. Duel rule ordering puts specific patterns before general ones: on  *)
(* a text that starts with a '<%$ name : value %>' block the second rule   *)
(* of 'root' is applied, on a text that starts with a '<%-- ... --%>'      *)
(* block the third, and the block is emitted as tag, Name.Function /       *)
(* Punctuation / String or Comment.Multiline, tag, not handed to the       *)
(* JavaScript sub-lexer by the first rule.                                 *)
DuelSpecificFirst ==
  \A r \in RunIds :
    DuelFirstStep(r) =>
      /\ ctx[r].text \in DuelValueBlocks =>
           /\ ctx[r].last.rule = 2
           /\ ctx[r].frags[2].kind = "Name.Function"
      /\ ctx[r].text \in DuelCommentBlocks =>
           /\ ctx[r].last.rule = 3
           /\ ctx[r].frags[2].kind = "Comment.Multiline"

(* What the runs do instead: a match of the second or of the third rule    *)
(* starts with '<%' and holds a '%>', so the first rule, whose optional    *)
(* character class may match nothing, matches at the same offset and is    *)
(* taken; the second and the third rule are applied in no step of any run. *)
DuelFirstRuleShadows ==
  \A r \in RunIds :
    (lexer = "Duel" /\ ctx[r].last.kind = "rule") =>
      /\ ctx[r].last.rule \notin {2, 3}
      /\ \A j \in {2, 3} :
           MatchesAt("root", j, ctx[r].text, ctx[r].last.pos) =>
             /\ MatchesAt("root", 1, ctx[r].text, ctx[r].last.pos)
             /\ ctx[r].last.rule = 1

(* The first rule has taken a '<%-- ... --%>' block that the third rule    *)
(* matches too.                                                            *)
DuelCommentTakenByFirst ==
  \E r \in RunIds :
    /\ DuelFirstStep(r)
    /\ ctx[r].text \in DuelCommentBlocks
    /\ ctx[r].last.rule = 1
    /\ MatchesAt("root", 3, ctx[r].text, 0)

(* The first rule has taken a '<%$ name : value %>' block that the second  *)
(* rule matches too.                                                       *)
DuelValueTakenByFirst ==
  \E r \in RunIds :
    /\ DuelFirstStep(r)
    /\ ctx[r].text \in DuelValueBlocks
    /\ ctx[r].last.rule = 1
    /\ MatchesAt("root", 2, ctx[r].text, 0)

CommentOpenings == {Lit("(:"), Grp(1, Lit("(:"))}

(* Step rec matched '(:': the comment rule of a state, or the nesting rule *)
(* of 'comment'.                                                           *)
IsCommentOpen(rec) ==
  /\ rec.kind = "rule"
  /\ RulesOf(rec.state)[rec.rule].re \in CommentOpenings

(* Step rec matched ':)' in 'comment'.                                     *)
IsCommentClose(rec) ==
  /\ rec.kind = "rule"
  /\ rec.state = "comment"
  /\ rec.rule = 1

(* The index in trace of the '(:' that the ':)' of the step after step k   *)
(* matches, 0 when there is none: ':)' steps met on the way back are       *)
(* paired off with the '(:' steps before them.                             *)
RECURSIVE CommentOpen(_, _, _)
CommentOpen(trace, k, depth) ==
  IF k = 0 THEN 0
  ELSE IF IsCommentClose(trace[k]) THEN CommentOpen(trace, k - 1, depth + 1)
  ELSE IF IsCommentOpen(trace[k])
  THEN IF depth = 0 THEN k ELSE CommentOpen(trace, k - 1, depth - 1)
  ELSE CommentOpen(trace, k - 1, depth)

CommentOpenedAt(r) == CommentOpen(ctx[r].trace, Len(ctx[r].trace) - 1, 0)

(* C30. XQuery comments nest and unwind exactly: when a ':)' has just been *)
(* matched, the state stack is the stack just before the '(:' it matches   *)
(* (for the last ':)' of a nest, the stack before the first '(:'),         *)
(* xquery_parse_state has not changed since then, and every fragment       *)
(* emitted since then has kind Comment.                                    *)
CommentsUnwind ==
  \A r \in RunIds :
    (lexer = "XQuery" /\ IsCommentClose(ctx[r].last)) =>
      /\ CommentOpenedAt(r) > 0
      /\ ctx[r].status # "raised"
      /\ ctx[r].stack = ctx[r].trace[CommentOpenedAt(r)].stack
      /\ xquery_parse_state = ctx[r].trace[CommentOpenedAt(r)].aux
      /\ \A k \in CommentOpenedAt(r)..Len(ctx[r].trace) :
           /\ ctx[r].trace[k].kind = "rule"
           /\ ctx[r].trace[k].aux = xquery_parse_state
           /\ k > CommentOpenedAt(r) => ctx[r].trace[k].state = "comment"
      /\ \A i \in ctx[r].trace[CommentOpenedAt(r)].n + 1..Len(ctx[r].frags) :
           ctx[r].frags[i].kind = "Comment"

(* The last ':)' of a nest of depth two or more has just been matched:     *)
(* its '(:' was matched outside 'comment' and a ':)' was matched since.    *)
NestedCommentClosed ==
  \E r \in RunIds :
    /\ lexer = "XQuery"
    /\ IsCommentClose(ctx[r].last)
    /\ CommentOpenedAt(r) > 0
    /\ ctx[r].trace[CommentOpenedAt(r)].state # "comment"
    /\ Len(ctx[r].trace[CommentOpenedAt(r)].stack) > 1
    /\ \E k \in CommentOpenedAt(r) + 1..Len(ctx[r].trace) - 1 :
         IsCommentClose(ctx[r].trace[k])

(* The states a comment has been opened from and closed back to in run r.  *)
CommentClosedFrom(r, st) ==
  /\ lexer = "XQuery"
  /\ IsCommentClose(ctx[r].last)
  /\ CommentOpenedAt(r) > 0
  /\ ctx[r].trace[CommentOpenedAt(r)].state = st

(* A comment opened with a non-empty xquery_parse_state has been closed.   *)
CommentClosedInsideEnclosed ==
  \E r \in RunIds :
    /\ CommentClosedFrom(r, "operator")
    /\ xquery_parse_state # << >>

(* re.compile(pattern).groups: the capturing groups of a pattern, nested   *)
(* groups counted.                                                         *)
RECURSIVE GroupCount(_), GroupCountOf(_, _)
GroupCount(re) ==
  CASE re.t = "grp" -> 1 + GroupCount(re.r)
    [] re.t \in {"rep", "ahead"} -> GroupCount(re.r)
    [] re.t \in {"cat", "alt"} -> GroupCountOf(re.rs, Len(re.rs))
    [] OTHER -> 0

GroupCountOf(rs, n) ==
  IF n = 0 THEN 0 ELSE GroupCountOf(rs, n - 1) + GroupCount(rs[n])

(* The per-capture-group rules of state st of the table run: the rules     *)
(* whose action is bygroups(...).                                          *)
PerGroupRules(st) ==
  {j \in 1..Len(RulesOf(st)) : RulesOf(st)[j].act.k = "bygroups"}

(* Rule j of state st assigns as many kinds as its pattern has groups.     *)
KindsMatchGroups(st, j) ==
  Len(RulesOf(st)[j].act.acts) = GroupCount(RulesOf(st)[j].re)

(* The language-tag rule of 'end-of-string' in Sparql and Turtle.          *)
IsLanguageTagRule(st, j) ==
  /\ lexer \in {"Sparql", "Turtle"}
  /\ st = "end-of-string"
  /\ j = 1

(* C31. Per-group kind lists match their patterns: every per-capture-group *)
(* rule of the Sparql, Turtle, Duel, XQuery and Slim tables assigns        *)
(* exactly as many kinds as its pattern has capturing groups, nested       *)
(* groups counted, the language-tag rules of 'end-of-string' in Sparql and *)
(* Turtle included.                                                        *)
KindListsMatchPatterns ==
  lexer \in GroupedLexers =>
    \A st \in DOMAIN Tokens(lexer) :
      \A j \in PerGroupRules(st) : KindsMatchGroups(st, j)

(* What the tables have instead: in the language-tag rules the subtag is   *)
(* written as a group that opens with a parenthesis, a colon and a         *)
(* question mark, a third capturing group that starts with an optional     *)
(* colon, and the rules assign two kinds; every other per-capture-group    *)
(* rule assigns as many kinds as its pattern has groups.                   *)
KindListsMatchButLanguageTag ==
  lexer \in GroupedLexers =>
    \A st \in DOMAIN Tokens(lexer) :
      \A j \in PerGroupRules(st) :
        IF IsLanguageTagRule(st, j)
        THEN /\ GroupCount(RulesOf(st)[j].re) = 3
             /\ Len(RulesOf(st)[j].act.acts) = 2
        ELSE KindsMatchGroups(st, j)

(* A language-tag rule has just been applied to a tag with a subtag: the   *)
(* third group of its pattern took part in the match, inside the second,   *)
(* and two fragments were emitted.                                         *)
LanguageSubtagMatched ==
  \E r \in RunIds :
    /\ ctx[r].last.kind = "rule"
    /\ IsLanguageTagRule(ctx[r].last.state, ctx[r].last.rule)
    /\ MStart(LastMatch(r), 3) >= MStart(LastMatch(r), 2)
    /\ MStart(LastMatch(r), 2) >= 0
    /\ MEnd(LastMatch(r), 3) = MEnd(LastMatch(r), 2)
    /\ Len(LastEmitted(r)) = 2
    /\ LastEmitted(r)[1].txt = "@"

(* A per-capture-group rule with nested groups has just been applied and   *)
(* its kinds are as many as its groups: the prefixed-name datatype rule of *)
(* Turtle 'end-of-string' or a rule of another table.                      *)
PerGroupRuleApplied ==
  \E r \in RunIds :
    /\ ctx[r].last.kind = "rule"
    /\ LastRule(r).act.k = "bygroups"
    /\ ~IsLanguageTagRule(ctx[r].last.state, ctx[r].last.rule)
    /\ KindsMatchGroups(ctx[r].last.state, ctx[r].last.rule)
    /\ Len(LastRule(r).act.acts) >= 3

=============================================================================
